---- MODULE Spec2Model ----
(***************************************************************************)
(* State-machine model of the ingestion core of brapi_sqlmodel_boilerplate *)
(* (retrying transport, cache-through reads, catalog and OHLCV sync).      *)
(* Each component has its own specification over the shared variables:     *)
(*   SpecRetry    app/core/http.py              send_request_with_retry    *)
(*   SpecKey      app/services/utils/key.py     make_cache_key             *)
(*   SpecCache    app/services/*_service.py     get_quote, get_crypto,     *)
(*                get_currency, get_inflation, get_prime_rate, get_history *)
(*   SpecCatalog  app/services/catalog_service.py   sync_assets            *)
(*   SpecOhlcv    app/services/ohlcv_service.py     backfill_ohlcv,        *)
(*                update_ohlcv_latest; quote_service.fetch_and_enrich_asset *)
(*   SpecRerun    the same operations, one of them run twice with the same *)
(*                input against an upstream that answers the same          *)
(***************************************************************************)
EXTENDS Integers, Sequences, FiniteSets, TLC

VARIABLES
    \* ---- retrying transport (app/core/http.py) ----
    rtPc,        \* "idle" | "attempt" | "wait" | "returned" | "raised"
    rtMax,       \* max_attempts of the running call
    rtAttempt,   \* tenacity's retry_state.attempt_number
    rtSends,     \* number of client.send calls made by the running call
    rtLast,      \* outcome of the latest client.send
    rtResult,    \* what the call returned or raised
    \* ---- cache key derivation (app/services/utils/key.py) ----
    keyPrefix,   \* prefix argument
    keySubject,  \* first part: the subject string
    keyParamsA,  \* second part: a dict, as its items in insertion order
    keyParamsB,  \* a second dict, as its items in insertion order
    keyA,        \* make_cache_key(keyPrefix, keySubject, keyParamsA)
    keyB,        \* make_cache_key(keyPrefix, keySubject, keyParamsB)
    \* ---- cache-through reads (app/services/*_service.py) ----
    cache,       \* Redis: key -> entry
    ctTask,      \* per caller: the get_* call it is in
    ctCalls,     \* number of get_* calls started
    hasToken,    \* settings.brapi_token is set
    planFree,    \* PLAN_FREE
    ctResource,  \* the read (by its cache prefix) the callers of this run use
    now,         \* the clock Redis expires entries by, in seconds
    \* ---- tables written by more than one service ----
    snapRows,    \* number of rows of the QuoteSnapshot table
    apiCalls,    \* the ApiCall table (audit records), oldest first
    \* ---- catalog synchronizer (app/services/catalog_service.py) ----
    assets,      \* the assets table as the session of the run sees it
    assetsDb,    \* the assets table as last committed
    assetErrors, \* inserts the unique constraint on Asset.ticker rejected
    sync,        \* the sync_assets run: position, page, stats, candidates
    syncRuns,    \* number of sync_assets runs started
    rateLimited, \* number of 429 answers the listing endpoint gave
    \* ---- OHLCV synchronizer (ohlcv_service.py, quote_service.py) ----
    bars,        \* the QuoteOHLCV table: a set of rows
    dividends,   \* the Dividend table: a set of rows
    ttm,         \* the FinancialsTTM table: a set of rows
    ohErrors,    \* inserts a unique constraint of these tables rejected
    oh,          \* the running or last backfill, update or enrichment
    ohRuns,      \* number of operations started
    ohScript,    \* SpecRerun: the input and the upstream answers replayed
    \* ---- rate limiter (app/core/limits.py) and the HTTP requests sent ----
    lim,         \* the buckets, the callers waiting on them, the requests sent
    \* ---- BrapiClient.quote (app/services/brapi_client.py) ----
    qc,          \* the running or last quote call: its requests and responses
    \* ---- shared HTTP client (app/core/http.py) ----
    hc,          \* _client, the clients constructed, the callers
    \* ---- _parse_timestamp (app/services/ohlcv_service.py) ----
    parsed,      \* the last instant parsed in two of its forms, and the results
    \* ---- backfill_ohlcv, the order of its awaits ----
    bf,          \* one run: the ticker at hand, the fetches in flight, the events
    \* ---- _fetch_quote_single, the calls of its loop ----
    fq,          \* one call: the attempt, the client calls made and their outcomes
    \* ---- _extract_ohlcv_from_quote and _extract_assets_from_list ----
    ex,          \* the last extraction: its records and what came out of it
    \* ---- backfill_ohlcv, two runs with a session each ----
    up,          \* the committed bars and, for each run, its session and its counters
    \* ---- BrapiClient._request_json, the sends under one permit ----
    tx           \* per resource: the permits granted and the requests sent; per caller: its permit and attempt

rtVars == <<rtPc, rtMax, rtAttempt, rtSends, rtLast, rtResult>>
keyVars == <<keyPrefix, keySubject, keyParamsA, keyParamsB, keyA, keyB>>
ctVars == <<cache, ctTask, ctCalls, hasToken, planFree, ctResource, now>>
snapVars == <<snapRows>>
auditVars == <<apiCalls>>
ohVars == <<bars, dividends, ttm, ohErrors, oh, ohRuns, ohScript>>
catVars == <<assets, assetsDb, assetErrors, sync, syncRuns, rateLimited>>

limVars == <<lim>>
cliVars == <<qc, hc, parsed, bf, fq, ex, up, tx>>

vars ==
    <<rtVars, keyVars, ctVars, snapVars, auditVars, catVars, ohVars, limVars, cliVars>>

\* what the actions of one component leave alone
notRt == <<keyVars, ctVars, snapVars, auditVars, catVars, ohVars, limVars, cliVars>>
notKey == <<rtVars, ctVars, snapVars, auditVars, catVars, ohVars, limVars, cliVars>>
notCt == <<rtVars, keyVars, catVars, ohVars, limVars, cliVars>>
notCat == <<rtVars, keyVars, ctVars, snapVars, ohVars, limVars, cliVars>>
notOh == <<rtVars, keyVars, ctVars, catVars, limVars, cliVars>>
notLim == <<rtVars, keyVars, ctVars, snapVars, auditVars, catVars, ohVars, cliVars>>
notCli == <<rtVars, keyVars, ctVars, snapVars, auditVars, catVars, ohVars, limVars>>

None == "None"

NoOutcome == [kind |-> "none", status |-> 0]
NoResult == [how |-> "none", exc |-> "none", outcome |-> NoOutcome]
NoKey == [prefix |-> "", human |-> <<>>, digest |-> -1]

(***************************************************************************)
(* The state of each component before its first call; a specification      *)
(* holds the components it does not exercise in this state.                *)
(***************************************************************************)

\* no send_request_with_retry call was made yet
RtIdle ==
    /\ rtPc = "idle" /\ rtMax = 0 /\ rtAttempt = 0 /\ rtSends = 0
    /\ rtLast = NoOutcome /\ rtResult = NoResult

\* callers of the cache-through reads
Tasks == {1, 2}

NoEntry == [present |-> FALSE, value |-> <<>>, ttl |-> 0, at |-> 0]

NoReadResult == [cached |-> FALSE, error |-> FALSE, status |-> 0, payload |-> <<>>]

IdleTask ==
    [pc |-> "idle", resource |-> "", subject |-> "", params |-> <<>>, key |-> NoKey,
     saw |-> NoEntry, pending |-> 0, reqs |-> 0, got |-> <<>>, wrote |-> NoEntry,
     failed |-> FALSE, result |-> NoReadResult, callNo |-> 0, readAt |-> 0]

\* no cache-through read was made yet: Redis and the tables are empty
CtIdle ==
    /\ cache = [k \in {} |-> NoEntry]
    /\ ctTask = [t \in Tasks |-> IdleTask]
    /\ ctCalls = 0
    /\ hasToken = FALSE
    /\ planFree = TRUE
    /\ ctResource = ""
    /\ now = 0

\* the QuoteSnapshot table and the ApiCall table are empty
SnapIdle == snapRows = 0
AuditIdle == apiCalls = <<>>

\* an Optional[str]: None, or a string as the sequence of its characters
PyNone == [none |-> TRUE, s |-> <<>>]
Str(s) == [none |-> FALSE, s |-> s]

\* an Optional[dict]: None, or a function from the keys
EmptyDict == [k \in {} |-> PyNone]
NoRaw == [none |-> TRUE, d |-> EmptyDict]
Dict(d) == [none |-> FALSE, d |-> d]

NoAsset ==
    [ticker |-> <<>>, name |-> PyNone, type |-> PyNone, sector |-> PyNone,
     segment |-> PyNone, isin |-> PyNone, logo_url |-> PyNone, raw |-> NoRaw]

NoStats == [processed |-> 0, inserted |-> 0, updated |-> 0, errors |-> 0, pages |-> 0]

NoSync ==
    [pc |-> "idle", asset_type |-> <<>>, page |-> 0, stats |-> NoStats,
     assets |-> <<>>, next |-> 1, has_next |-> "None", current_page |-> -1,
     total_pages |-> -1, requested |-> <<>>]

\* no sync_assets run was made yet: the assets table is empty
CatIdle ==
    /\ assets = <<>> /\ assetsDb = <<>> /\ assetErrors = 0
    /\ sync = NoSync /\ syncRuns = 0 /\ rateLimited = 0

\* no key was derived yet
KeyIdle ==
    /\ keyPrefix = "" /\ keySubject = "" /\ keyParamsA = <<>> /\ keyParamsB = <<>>
    /\ keyA = NoKey /\ keyB = NoKey

NoDate == [none |-> TRUE, sec |-> 0, ms |-> 0]

NoFetch == [kind |-> "none", status |-> 0, items |-> 0, points |-> <<>>]

NoBackfillStats ==
    [processed |-> 0, inserted |-> 0, updated |-> 0, errors |-> 0, total_requested |-> 0]

NoEnrichResult == [ohlcv_rows_upserted |-> 0, dividends_rows_upserted |-> 0,
                   ttm_updated |-> FALSE]

NoOh ==
    [op |-> "none", pc |-> "idle", tickers |-> <<>>, range |-> "", dividends |-> FALSE,
     modules |-> FALSE, next |-> 1, stats |-> NoBackfillStats, last |-> NoFetch,
     result |-> NoEnrichResult, calls |-> <<>>, ttm_data |-> 0]

NoScript ==
    [op |-> "none", tickers |-> <<>>, dividends |-> FALSE, modules |-> FALSE,
     tries |-> <<>>, cash |-> <<>>, financial |-> 0]

\* no backfill, update or enrichment was made yet: the tables are empty
OhIdle ==
    /\ bars = {} /\ dividends = {} /\ ttm = {} /\ ohErrors = 0
    /\ oh = NoOh /\ ohRuns = 0 /\ ohScript = NoScript

\* the limiters of the resources the model sends requests for
LimResources == {"quote", "prime_rate_available"}

\* _DEFAULT_LIMITS is empty (a limiter is made with an empty bucket at its
\* first use), nobody waits and no request was sent
NoLim ==
    [level |-> [r \in LimResources |-> 0], waiting |-> [r \in LimResources |-> 0],
     granted |-> [r \in LimResources |-> 0], clock |-> 0, sent |-> {},
     token |-> FALSE, refused |-> [r \in LimResources |-> 0]]

LimIdle == lim = NoLim

\* no quote call was made yet
NoQc ==
    [pc |-> "idle", tickers |-> <<>>, plan |-> [none |-> TRUE, s |-> <<>>],
     plan_free |-> FALSE, todo |-> <<>>, sent |-> <<>>, responses |-> <<>>,
     result |-> <<>>]

\* the coroutines that call get_async_client and close_async_client
MaxCallers == 3
Callers == 1..MaxCallers

\* _client is None (0), no client was constructed, _client_lock is free (0),
\* no caller is inside a call
NoHc ==
    [client |-> 0, made |-> 0, closed |-> {}, lock |-> 0,
     task |-> [t \in Callers |-> [pc |-> "out", got |-> 0]]]

\* _parse_timestamp was not called yet
NoParsed ==
    [pc |-> "idle", a |-> [kind |-> "none", hi |-> 0, lo |-> 0],
     b |-> [kind |-> "none", hi |-> 0, lo |-> 0],
     da |-> [none |-> TRUE, sec |-> 0, ms |-> 0], db |-> [none |-> TRUE, sec |-> 0, ms |-> 0]]

\* backfill_ohlcv was not called yet
NoBf ==
    [pc |-> "idle", n |-> 0, max_concurrency |-> 0, semaphore |-> 0, next |-> 1,
     inflight |-> 0, events |-> <<>>]

\* _fetch_quote_single was not called yet
NoFq ==
    [pc |-> "idle", attempt |-> 0, invoked |-> 0, requests |-> 0, outcomes |-> <<>>,
     result |-> [kind |-> "none", status |-> 0, sends |-> 0]]

NoEx == [pc |-> "idle", what |-> "none", points |-> <<>>, rows |-> <<>>,
         items |-> <<>>, assets |-> <<>>]

MaxSessions == 2
Sessions == 1..MaxSessions

NoRun == [pc |-> "idle", tickers |-> <<>>, next |-> 1, bar |-> 1, pending |-> {},
          flushed |-> {}, failed |-> FALSE,
          stats |-> [processed |-> 0, inserted |-> 0, updated |-> 0, errors |-> 0]]

NoUp == [table |-> {}, run |-> [r \in Sessions |-> NoRun]]

MaxTxCallers == 2
TxCallers == 1..MaxTxCallers
TxResources == {"quote", "quote_list", "prime_rate_available"}

\* a caller outside `async with limiter`
NoHold == [resource |-> "none", attempt |-> 0]

NoTx == [granted |-> [r \in TxResources |-> 0], sends |-> [r \in TxResources |-> 0],
         held |-> [c \in TxCallers |-> NoHold]]

CliIdle == qc = NoQc /\ hc = NoHc /\ parsed = NoParsed /\ bf = NoBf /\ fq = NoFq /\ ex = NoEx /\ up = NoUp /\ tx = NoTx

IdleButRt ==
    KeyIdle /\ CtIdle /\ SnapIdle /\ AuditIdle /\ CatIdle /\ OhIdle /\ LimIdle /\ CliIdle
IdleButKey ==
    RtIdle /\ CtIdle /\ SnapIdle /\ AuditIdle /\ CatIdle /\ OhIdle /\ LimIdle /\ CliIdle
IdleButCt ==
    RtIdle /\ KeyIdle /\ CatIdle /\ OhIdle /\ LimIdle /\ CliIdle
IdleButCat ==
    RtIdle /\ KeyIdle /\ CtIdle /\ SnapIdle /\ OhIdle /\ LimIdle /\ CliIdle
IdleButOh ==
    RtIdle /\ KeyIdle /\ CtIdle /\ CatIdle /\ LimIdle /\ CliIdle
IdleButLim ==
    RtIdle /\ KeyIdle /\ CtIdle /\ SnapIdle /\ AuditIdle /\ CatIdle /\ OhIdle /\ CliIdle

IdleButCli ==
    /\ RtIdle /\ KeyIdle /\ CtIdle /\ SnapIdle /\ AuditIdle /\ CatIdle /\ OhIdle
    /\ LimIdle

(***************************************************************************)
(* Retrying transport: app/core/http.py                                    *)
(***************************************************************************)

\* default of the max_attempts keyword
DEFAULT_MAX_ATTEMPTS == 4

\* largest max_attempts a caller passes in the model
MaxAttemptsBound == 4

\* the status set of line 29
RETRYABLE_STATUSES == {429, 500, 502, 503, 504}

\* statuses the upstream answers with in the model
Statuses == {200, 204, 301, 400, 401, 403, 404, 429, 500, 501, 502, 503, 504}

\* what one client.send can do: fail in the transport, fail otherwise,
\* or deliver a response
SendOutcomes ==
    {[kind |-> "transport_error", status |-> 0],
     [kind |-> "other_error", status |-> 0]}
    \cup {[kind |-> "response", status |-> s] : s \in Statuses}

\* httpx.Response.is_success
IsSuccess(status) == status >= 200 /\ status <= 299

\* The body of the `with attempt:` block: the exception class it raises, or
\* "ok" when it returns the response.
AttemptRaises(o) ==
    IF o.kind = "transport_error" THEN "TransportError"
    ELSE IF o.kind = "other_error" THEN "Exception"
    ELSE IF o.status \in RETRYABLE_STATUSES THEN "RetryableHTTPStatusError"
    ELSE IF IsSuccess(o.status) THEN "ok"
    ELSE "HTTPStatusError"

\* a retry predicate that matches the base class httpx.HTTPStatusError
RetryAnyStatusError(exc) ==
    exc \in {"TransportError", "RetryableHTTPStatusError", "HTTPStatusError"}

\* retry=retry_if_exception_type((httpx.TransportError, RetryableHTTPStatusError))
RetryPredicate(exc) == exc \in {"TransportError", "RetryableHTTPStatusError"}

\* a stop condition that allows one attempt too many
StopAfterAttemptOffByOne(attempt, max) == attempt > max

\* stop=stop_after_attempt(max_attempts)
StopAfterAttempt(attempt, max) == attempt >= max

\* send_request_with_retry(client, request, max_attempts=m) is entered
RtCall(m) ==
    /\ rtPc \in {"idle", "returned", "raised"}
    /\ rtPc' = "attempt"
    /\ rtMax' = m
    /\ rtAttempt' = 1
    /\ rtSends' = 0
    /\ rtLast' = NoOutcome
    /\ rtResult' = NoResult
    /\ UNCHANGED notRt

\* one pass of the loop body, then tenacity's decision
RtSend(o) ==
    /\ rtPc = "attempt"
    /\ rtSends' = rtSends + 1
    /\ rtLast' = o
    /\ LET exc == AttemptRaises(o) IN
        IF exc = "ok"
        THEN /\ rtPc' = "returned"
             /\ rtResult' = [how |-> "return", exc |-> "ok", outcome |-> o]
        ELSE IF ~RetryPredicate(exc) \/ StopAfterAttempt(rtAttempt, rtMax)
        THEN /\ rtPc' = "raised"
             /\ rtResult' = [how |-> "raise", exc |-> exc, outcome |-> o]
        ELSE /\ rtPc' = "wait"
             /\ rtResult' = rtResult
    /\ UNCHANGED <<rtMax, rtAttempt>>
    /\ UNCHANGED notRt

\* wait_exponential_jitter elapses; the next attempt begins
RtBackoff ==
    /\ rtPc = "wait"
    /\ rtPc' = "attempt"
    /\ rtAttempt' = rtAttempt + 1
    /\ UNCHANGED <<rtMax, rtSends, rtLast, rtResult>>
    /\ UNCHANGED notRt

InitRetry == RtIdle /\ IdleButRt

NextRetry ==
    \/ \E m \in 1..MaxAttemptsBound : RtCall(m)
    \/ \E o \in SendOutcomes : RtSend(o)
    \/ RtBackoff

SpecRetry == InitRetry /\ [][NextRetry]_vars

\* C4: retry ceiling. The request is never sent more than max_attempts times;
\* a call goes on to another attempt only while fewer than max_attempts sends
\* were made; and a call that ends in a retryable error (so every attempt
\* was retryable) has sent exactly max_attempts times and raises the error
\* of its last attempt.
C4_RetryCeiling ==
    /\ rtSends <= rtMax
    /\ rtPc \in {"attempt", "wait"} => rtSends < rtMax
    /\ (rtPc = "raised" /\ RetryPredicate(rtResult.exc)) =>
          /\ rtSends = rtMax
          /\ rtResult.how = "raise"
          /\ rtResult.outcome = rtLast
          /\ AttemptRaises(rtLast) = rtResult.exc

\* a default call against an upstream that always answers 503 has given up
C4_Witness ==
    /\ rtPc = "raised"
    /\ rtMax = DEFAULT_MAX_ATTEMPTS
    /\ rtSends = DEFAULT_MAX_ATTEMPTS
    /\ rtResult.exc = "RetryableHTTPStatusError"
    /\ rtLast.status = 503

\* C5: retry classification. After a send that delivered a status outside
\* {429,500,502,503,504} the call has ended: returned for a 2xx, raised
\* (HTTPStatusError, the response's own) for anything else; it is waiting
\* for another attempt only after a transport failure or a listed status.
C5_RetryClassification ==
    /\ (rtLast.kind = "response" /\ rtLast.status \notin RETRYABLE_STATUSES) =>
          /\ rtPc \in {"returned", "raised"}
          /\ rtResult.outcome = rtLast
          /\ IsSuccess(rtLast.status) => rtPc = "returned" /\ rtResult.how = "return"
          /\ ~IsSuccess(rtLast.status) =>
                rtPc = "raised" /\ rtResult.exc = "HTTPStatusError"
    /\ rtPc = "wait" =>
          \/ rtLast.kind = "transport_error"
          \/ rtLast.kind = "response" /\ rtLast.status \in RETRYABLE_STATUSES
    /\ rtPc = "returned" => rtLast.kind = "response" /\ IsSuccess(rtLast.status)

\* a 404 on the first send of a default call is raised with no second send
C5_Witness ==
    /\ rtPc = "raised"
    /\ rtMax = DEFAULT_MAX_ATTEMPTS
    /\ rtSends = 1
    /\ rtLast.kind = "response" /\ rtLast.status = 404

(***************************************************************************)
(* Cache key derivation: app/services/utils/key.py                         *)
(* A Python string is a sequence of tokens; a dict is the sequence of its  *)
(* (key, value) items in insertion order, keys distinct.                   *)
(***************************************************************************)

\* most items a parameter dict holds in the model
MaxParams == 3

\* parameter names, in Python's string order
ParamNames == <<"country", "currency", "interval", "modules", "range">>

\* the names a caller of make_cache_key draws its dict from in SpecKey
KeyParamNames == {"interval", "modules", "range"}

ParamValues == {"1d", "3mo"}

KeyPrefixes == {"quote", "crypto"}

KeySubjects == {"PETR4", "VALE3"}

\* every token a key is made of, for the digest's byte codes
Tokens ==
    <<"{", "}", ":", ",", "::", "interval", "modules", "range", "1d", "3mo",
      "PETR4", "VALE3", "PETR4,VALE3", "quote", "crypto", "BTC", "BRL",
      "USD-BRL", "currency", "inflation", "prime_rate", "quote_history",
      "country", "br", "", "available", "all">>

TokenCode(t) == CHOOSE i \in 1..Len(Tokens) : Tokens[i] = t

\* Python's < on the parameter names
NameRank(k) == CHOOSE i \in 1..Len(ParamNames) : ParamNames[i] = k

RECURSIVE InsertByKey(_, _)
InsertByKey(item, sorted) ==
    IF sorted = <<>> THEN <<item>>
    ELSE IF NameRank(item[1]) < NameRank(Head(sorted)[1])
         THEN <<item>> \o sorted
         ELSE <<Head(sorted)>> \o InsertByKey(item, Tail(sorted))

\* the items ordered as sort_keys=True orders them
RECURSIVE SortItems(_)
SortItems(items) ==
    IF items = <<>> THEN <<>>
    ELSE InsertByKey(Head(items), SortItems(Tail(items)))

\* "k":"v" joined by "," between braces (separators=(",", ":"))
RECURSIVE DumpItems(_)
DumpItems(items) ==
    IF items = <<>> THEN <<>>
    ELSE <<items[1][1], ":", items[1][2]>>
         \o (IF Len(items) > 1 THEN <<",">> ELSE <<>>)
         \o DumpItems(Tail(items))

\* json.dumps without sort_keys: the items in insertion order
JsonDumpsUnsorted(items) == <<"{">> \o DumpItems(items) \o <<"}">>

\* json.dumps(p, sort_keys=True, separators=(",", ":"))
JsonDumps(items) == <<"{">> \o DumpItems(SortItems(items)) \o <<"}">>

\* a part is a dict ([dict |-> TRUE, items]) or anything else, taken by str()
NormPart(p) == IF p.dict THEN JsonDumps(p.items) ELSE <<p.str>>

\* "::".join(strings)
RECURSIVE JoinParts(_)
JoinParts(strs) ==
    IF strs = <<>> THEN <<>>
    ELSE strs[1] \o (IF Len(strs) > 1 THEN <<"::">> ELSE <<>>) \o JoinParts(Tail(strs))

\* width of the truncated digest, as a modulus (hexdigest()[:16] keeps 64 bits)
DigestMod == 65536

\* the digest of a string: a positional checksum of its tokens, standing for
\* sha256(...).hexdigest()[:16]
RECURSIVE DigestFrom(_, _)
DigestFrom(str, acc) ==
    IF str = <<>> THEN acc
    ELSE DigestFrom(Tail(str), (acc * 31 + TokenCode(Head(str))) % DigestMod)

Digest(str) == DigestFrom(str, 7)

\* make_cache_key(prefix, *parts)
MakeCacheKey(prefix, parts) ==
    LET norm == [i \in 1..Len(parts) |-> NormPart(parts[i])]
        digest == Digest(JoinParts(norm))
        human == JoinParts(SubSeq(norm, 1, IF Len(norm) < 3 THEN Len(norm) ELSE 3))
    IN  [prefix |-> prefix, human |-> human, digest |-> digest]

StrPart(x) == [dict |-> FALSE, str |-> x, items |-> <<>>]
DictPart(items) == [dict |-> TRUE, str |-> "", items |-> items]

\* the dicts of at most MaxParams items, each given in every insertion order
RECURSIVE DictOrders(_)
DictOrders(n) ==
    IF n = 0 THEN {<<>>}
    ELSE LET shorter == DictOrders(n - 1) IN
         shorter \cup
         {Append(d, <<k, v>>) :
            d \in {x \in shorter : Len(x) = n - 1},
            k \in KeyParamNames,
            v \in ParamValues}

DistinctKeys(d) == \A i, j \in 1..Len(d) : i # j => d[i][1] # d[j][1]

ParamDicts == {d \in DictOrders(MaxParams) : DistinctKeys(d)}

\* the mapping a dict denotes, whatever its insertion order
Mapping(d) == {d[i] : i \in 1..Len(d)}

\* a service derives the key of its first parameter dict:
\* make_cache_key(prefix, subject, params)
DeriveKeyA ==
    /\ keyA = NoKey
    /\ keyA' = MakeCacheKey(keyPrefix, <<StrPart(keySubject), DictPart(keyParamsA)>>)
    /\ UNCHANGED <<keyPrefix, keySubject, keyParamsA, keyParamsB, keyB>>
    /\ UNCHANGED notKey

\* and the key of its second parameter dict
DeriveKeyB ==
    /\ keyB = NoKey
    /\ keyB' = MakeCacheKey(keyPrefix, <<StrPart(keySubject), DictPart(keyParamsB)>>)
    /\ UNCHANGED <<keyPrefix, keySubject, keyParamsA, keyParamsB, keyA>>
    /\ UNCHANGED notKey

InitKey ==
    /\ IdleButKey
    /\ keyPrefix \in KeyPrefixes
    /\ keySubject \in KeySubjects
    /\ keyParamsA \in ParamDicts
    /\ keyParamsB \in ParamDicts
    /\ keyA = NoKey /\ keyB = NoKey

NextKey == DeriveKeyA \/ DeriveKeyB

SpecKey == InitKey /\ [][NextKey]_vars

\* C10: cache key determinism. Two parameter dicts that hold the same
\* mapping, inserted in whatever order, give the same key for the same
\* prefix and subject.
C10_KeyDeterminism ==
    (keyA # NoKey /\ keyB # NoKey /\ Mapping(keyParamsA) = Mapping(keyParamsB))
        => keyA = keyB

\* {"range":"3mo","interval":"1d"} against {"interval":"1d","range":"3mo"}
C10_Witness ==
    /\ keyA # NoKey /\ keyB # NoKey
    /\ keyPrefix = "quote" /\ keySubject = "PETR4"
    /\ keyParamsA = <<<<"range", "3mo">>, <<"interval", "1d">>>>
    /\ keyParamsB = <<<<"interval", "1d">>, <<"range", "3mo">>>>
    /\ keyA = keyB

(***************************************************************************)
(* Cache-through reads: quote_service.get_quote, crypto_service.get_crypto, *)
(* currency_service.get_currency, macro_service.get_inflation and          *)
(* get_prime_rate, history_service.get_history, over BrapiClient.          *)
(***************************************************************************)

\* most get_* calls started in one behaviour
MaxCalls == 3

CACHE_TTL_QUOTE_SECONDS == 1800
CACHE_TTL_CRYPTO_SECONDS == 3600
CACHE_TTL_CURRENCY_SECONDS == 3600
CACHE_TTL_MACRO_SECONDS == 86400
AVAILABLE_TTL_SECONDS == 86400

Resources ==
    {"quote", "crypto", "currency", "inflation", "prime_rate", "quote_history",
     "available"}

\* ttl = settings.cache_ttl_*_seconds of each read
ResourceTtl(r) ==
    CASE r = "quote" -> CACHE_TTL_QUOTE_SECONDS
      [] r = "quote_history" -> CACHE_TTL_QUOTE_SECONDS
      [] r = "crypto" -> CACHE_TTL_CRYPTO_SECONDS
      [] r = "currency" -> CACHE_TTL_CURRENCY_SECONDS
      [] r = "inflation" -> CACHE_TTL_MACRO_SECONDS
      [] r = "prime_rate" -> CACHE_TTL_MACRO_SECONDS
      [] r = "available" -> AVAILABLE_TTL_SECONDS

\* the subject strings the callers pass, and the parameter dict of each read
ReadInputs ==
    {[resource |-> "quote", subject |-> sub, params |-> ps] :
        sub \in {"", "PETR4", "PETR4,VALE3"},
        ps \in {<<<<"range", "3mo">>, <<"interval", "1d">>>>}}
    \cup {[resource |-> "quote_history", subject |-> sub,
           params |-> <<<<"range", "3mo">>, <<"interval", "1d">>>>] :
        sub \in {"", "PETR4"}}
    \cup {[resource |-> "crypto", subject |-> "BTC",
           params |-> <<<<"currency", "BRL">>>>]}
    \cup {[resource |-> "currency", subject |-> "USD-BRL", params |-> <<>>]}
    \cup {[resource |-> r, subject |-> "br", params |-> <<<<"country", "br">>>>] :
        r \in {"inflation", "prime_rate"}}
    \cup {[resource |-> "available", subject |-> "all", params |-> <<>>]}

\* [t.strip() for t in subject.split(",") if t.strip()] on the subjects above
SplitNonBlank(subject) ==
    CASE subject = "" -> <<>>
      [] subject = "PETR4,VALE3" -> <<"PETR4", "VALE3">>
      [] OTHER -> <<subject>>

\* require_token of the BrapiClient method behind each read (of the first
\* of them, quote_list, in get_available)
RequireToken(r) == r \in {"crypto", "available"}

\* The upstream requests one client call makes: BrapiClient.quote sends
\* nothing for an empty ticker list, one request per ticker on the free plan
\* (or for a single ticker) and one batch request otherwise; the other
\* methods send one request, and get_available calls five of them.
RequestsNeeded(r, subject, free) ==
    IF r \in {"quote", "quote_history"}
    THEN LET n == Len(SplitNonBlank(subject)) IN
         IF n = 0 THEN 0 ELSE IF free \/ n = 1 THEN n ELSE 1
    ELSE IF r = "available" THEN 5
    ELSE 1

\* payloads the upstream answers with
Payloads == {"p1", "p2"}

\* what one _request_json call can end in, past the token check
RequestOutcomes ==
    {[kind |-> "ok", payload |-> p, status |-> 200] : p \in Payloads}
    \cup {[kind |-> "HTTPStatusError", payload |-> "", status |-> st] : st \in {404}}
    \cup {[kind |-> "TransportError", payload |-> "", status |-> 0],
          [kind |-> "ValueError", payload |-> "", status |-> 0]}

\* the outcomes drawn for the requests of one read: the five requests of
\* get_available are answered with one payload each
RequestOutcomesFor(r) ==
    IF r = "available"
    THEN {o \in RequestOutcomes : o.kind = "ok" => o.payload = "p1"}
    ELSE RequestOutcomes

\* The except clauses around the client call of each read: the status of the
\* error result they return, or 0 when the exception propagates.
HandledStatus(r, exc, status) ==
    IF exc = "HTTPStatusError"
       /\ r \in {"crypto", "currency", "inflation", "prime_rate", "available"}
    THEN status
    ELSE IF exc = "ValueError" /\ r = "crypto" THEN 400
    ELSE IF exc = "ValueError" /\ r = "available" THEN 401
    ELSE 0

\* reads that return an error result when try_validate fails
ValidationGates(r) == r \in {"quote", "crypto", "currency"}

\* reads that persist snapshot rows after a good fetch
AddsSnapshots(r) == r \in {"quote", "crypto", "currency", "inflation", "prime_rate"}

\* an entry set with ex=ttl at the time `at` is gone ttl seconds later; one
\* set without ex (ttl = 0 here) stays
Expired(e) == e.ttl # 0 /\ now >= e.at + e.ttl

\* await r.get(key)
RedisGet(c, k) == IF k \in DOMAIN c /\ ~Expired(c[k]) THEN c[k] ELSE NoEntry

\* a hit test that ignores what Redis returned
IsHitNever(e) == FALSE

\* `if cached:` -- a stored JSON text is never the empty string
IsHit(e) == e.present

\* r.set without ex: the entry never expires
RedisSetNoExpiry(c, k, payload, ttl) ==
    (k :> [present |-> TRUE, value |-> payload, ttl |-> 0, at |-> now]) @@ c

\* await r.set(key, json.dumps(payload, ...), ex=ttl)
RedisSet(c, k, payload, ttl) ==
    (k :> [present |-> TRUE, value |-> payload, ttl |-> ttl, at |-> now]) @@ c

\* an error path that caches the error body
CacheErrorBody(c, k, ttl) == RedisSet(c, k, <<"error">>, ttl)

\* the error paths return or raise before r.set: Redis is left as it is
CacheAfterFailedFetch(c, k, ttl) == c

\* _log_call: one ApiCall row, committed
LogCall(log, endpoint, cached, status) ==
    Append(log, [endpoint |-> endpoint, cached |-> cached, status |-> status])

\* Entry of a get_* call up to its first upstream request: get_history
\* returns at once for a blank ticker; otherwise the key is derived and Redis
\* is read; a hit is logged and returned, a miss goes on to the client.
CtBegin(t, in) ==
    /\ ctTask[t].pc \in {"idle", "done", "raised"}
    /\ ctCalls < MaxCalls
    /\ in.resource = ctResource
    /\ ctCalls' = ctCalls + 1
    /\ LET key == MakeCacheKey(in.resource, <<StrPart(in.subject), DictPart(in.params)>>)
           entry == RedisGet(cache, key)
           base == [IdleTask EXCEPT !.resource = in.resource, !.subject = in.subject,
                                    !.params = in.params, !.callNo = ctCalls + 1,
                                    !.readAt = now]
       IN
       IF in.resource = "quote_history" /\ in.subject = ""
       THEN /\ ctTask' = [ctTask EXCEPT ![t] = [base EXCEPT !.pc = "done"]]
            /\ UNCHANGED apiCalls
       ELSE IF IsHit(entry)
       THEN /\ ctTask' = [ctTask EXCEPT ![t] =
                    [base EXCEPT !.pc = "done", !.key = key, !.saw = entry,
                                 !.result = [cached |-> TRUE, error |-> FALSE,
                                             status |-> 200, payload |-> entry.value]]]
            /\ apiCalls' = LogCall(apiCalls, in.resource, TRUE, 200)
       ELSE /\ ctTask' = [ctTask EXCEPT ![t] =
                    [base EXCEPT !.pc = IF RequestsNeeded(in.resource, in.subject, planFree) = 0
                                        THEN "store" ELSE "fetch",
                                 !.key = key, !.saw = entry,
                                 !.pending = RequestsNeeded(in.resource, in.subject, planFree)]]
            /\ UNCHANGED apiCalls
    /\ UNCHANGED <<cache, hasToken, planFree, ctResource, now, snapRows>>
    /\ UNCHANGED notCt

\* how a failed client call ends the read: an error result (logged) where the
\* read catches the exception, the exception itself where it does not
CtFail(t, exc, status, madeRequest) ==
    LET me == ctTask[t]
        st == HandledStatus(me.resource, exc, status)
        reqs == IF madeRequest THEN me.reqs + 1 ELSE me.reqs
    IN
    /\ cache' = CacheAfterFailedFetch(cache, me.key, ResourceTtl(me.resource))
    /\ IF st # 0
       THEN /\ ctTask' = [ctTask EXCEPT ![t] =
                    [me EXCEPT !.pc = "done", !.reqs = reqs, !.pending = 0, !.failed = TRUE,
                               !.result = [cached |-> FALSE, error |-> TRUE,
                                           status |-> st, payload |-> <<>>]]]
            /\ apiCalls' = LogCall(apiCalls, me.resource, FALSE, st)
       ELSE /\ ctTask' = [ctTask EXCEPT ![t] =
                    [me EXCEPT !.pc = "raised", !.reqs = reqs, !.pending = 0, !.failed = TRUE]]
            /\ UNCHANGED apiCalls

\* One BrapiClient._request_json call of the read: the token check, then the
\* request (rate limiter and retrying transport included) and its outcome.
CtRequest(t, o) ==
    /\ ctTask[t].pc = "fetch"
    /\ LET me == ctTask[t] IN
       IF RequireToken(me.resource) /\ ~hasToken
       THEN CtFail(t, "ValueError", 0, FALSE)
       ELSE IF o.kind # "ok"
       THEN CtFail(t, o.kind, o.status, TRUE)
       ELSE /\ ctTask' = [ctTask EXCEPT ![t] =
                    [me EXCEPT !.reqs = me.reqs + 1, !.pending = me.pending - 1,
                               !.got = Append(me.got, o.payload),
                               !.pc = IF me.pending = 1 THEN "store" ELSE "fetch"]]
            /\ UNCHANGED <<cache, apiCalls>>
    /\ UNCHANGED <<ctCalls, hasToken, planFree, ctResource, now, snapRows>>
    /\ UNCHANGED notCt

\* The rest of the read after the client returned: r.set with the read's TTL,
\* try_validate, _log_call, the snapshot rows, the result.
CtStore(t, valid) ==
    /\ ctTask[t].pc = "store"
    /\ LET me == ctTask[t]
           ttl == ResourceTtl(me.resource)
           bad == ValidationGates(me.resource) /\ ~valid
       IN
       /\ cache' = RedisSet(cache, me.key, me.got, ttl)
       /\ ctTask' = [ctTask EXCEPT ![t] =
              [me EXCEPT !.pc = "done",
                         !.wrote = cache'[me.key],
                         !.result = IF bad
                                    THEN [cached |-> FALSE, error |-> TRUE,
                                          status |-> 500, payload |-> <<>>]
                                    ELSE [cached |-> FALSE, error |-> FALSE,
                                          status |-> 200, payload |-> me.got]]]
       /\ apiCalls' = LogCall(apiCalls, me.resource, FALSE, IF bad THEN 500 ELSE 200)
       /\ snapRows' = IF ~bad /\ AddsSnapshots(me.resource) /\ me.got # <<>>
                      THEN snapRows + 1 ELSE snapRows
    /\ UNCHANGED <<ctCalls, hasToken, planFree, ctResource, now>>
    /\ UNCHANGED notCt

InitCache ==
    /\ IdleButCt
    /\ cache = [k \in {} |-> NoEntry]
    /\ ctTask = [t \in Tasks |-> IdleTask]
    /\ ctCalls = 0
    /\ hasToken \in BOOLEAN
    /\ planFree \in BOOLEAN
    /\ ctResource \in Resources
    /\ now = 0
    /\ apiCalls = <<>>
    /\ snapRows = 0

NextCache ==
    \/ \E t \in Tasks, in \in ReadInputs : CtBegin(t, in)
    \/ \E t \in Tasks, o \in RequestOutcomesFor(ctResource) : CtRequest(t, o)
    \/ \E t \in Tasks, valid \in BOOLEAN : CtStore(t, valid)

SpecCache == InitCache /\ [][NextCache]_vars

\* the entry a read writes after a good fetch
WrittenEntry(me) ==
    [present |-> TRUE, value |-> me.got, ttl |-> ResourceTtl(me.resource),
     at |-> me.wrote.at]

\* the read made no upstream request because there was none to make: no
\* non-blank ticker in the subject, or no token for a credential-gated read
ShortCircuited(me) ==
    \/ me.resource \in {"quote", "quote_history"} /\ SplitNonBlank(me.subject) = <<>>
    \/ RequireToken(me.resource) /\ ~hasToken

\* C8 as stated: a returned read that found an entry reports cached = True
\* with the stored payload and made no upstream request; one that found none
\* made an upstream request, reports cached = False and, its fetch having
\* succeeded, stored the payload under its key with the resource's TTL; and
\* cached is True exactly when the call made no upstream request.
C8_AsStated ==
    \A t \in Tasks :
        LET me == ctTask[t] IN
        me.pc = "done" =>
            /\ me.saw.present =>
                  me.result.cached /\ me.result.payload = me.saw.value /\ me.reqs = 0
            /\ ~me.saw.present =>
                  /\ ~me.result.cached
                  /\ me.reqs >= 1
                  /\ ~me.failed => me.wrote = WrittenEntry(me)
            /\ me.result.cached <=> me.reqs = 0

\* C8 (amended): as stated, except that cached = True only implies that no
\* upstream request was made: a read that found no entry returns
\* cached = False without any upstream request when it was short-circuited
\* (no non-blank ticker, or no token for a credential-gated read); get_history
\* with a blank ticker then stores nothing, every other good miss stores its
\* payload under its key with the resource's TTL.
C8_CacheThrough ==
    \A t \in Tasks :
        LET me == ctTask[t] IN
        me.pc = "done" =>
            /\ me.saw.present =>
                  /\ me.result.cached /\ ~me.result.error
                  /\ me.result.payload = me.saw.value
                  /\ me.reqs = 0
                  /\ me.wrote = NoEntry
            /\ ~me.saw.present =>
                  /\ ~me.result.cached
                  /\ me.reqs >= 1 \/ ShortCircuited(me)
                  /\ (~me.failed /\ me.key # NoKey) =>
                        /\ me.wrote = WrittenEntry(me)
                        /\ RedisGet(cache, me.key).present
                        /\ RedisGet(cache, me.key).ttl = ResourceTtl(me.resource)
                        /\ me.reqs = RequestsNeeded(me.resource, me.subject, planFree)
                  /\ me.key = NoKey => me.wrote = NoEntry /\ me.reqs = 0
            /\ me.result.cached => me.reqs = 0
            /\ (me.reqs = 0 /\ ~me.result.cached) => ShortCircuited(me)

\* a miss that fetched and stored, then an identical read served from Redis
C8_Witness ==
    \E t, u \in Tasks :
        /\ ctTask[t].pc = "done" /\ ctTask[u].pc = "done"
        /\ ~ctTask[t].saw.present /\ ctTask[t].reqs = 1 /\ ~ctTask[t].result.cached
        /\ ctTask[t].wrote.present
        /\ ctTask[u].callNo > ctTask[t].callNo
        /\ ctTask[u].key = ctTask[t].key
        /\ ctTask[u].result.cached /\ ctTask[u].reqs = 0
        /\ ctTask[u].result.payload = ctTask[t].got

\* C9: the step in which a read's client call fails leaves Redis as it is and
\* the read writes no entry; and a read that finds no entry for its key is
\* not served from the cache but goes to the client again.
C9_FailedFetchNotCached ==
    [][\A t \in Tasks :
          /\ (ctTask[t].pc = "fetch" /\ ctTask'[t].failed) =>
                /\ cache' = cache
                /\ ctTask'[t].wrote = NoEntry
                /\ ctTask'[t].pc \in {"done", "raised"}
                /\ ctTask'[t].pc = "done" =>
                      ctTask'[t].result.error /\ ~ctTask'[t].result.cached
          /\ (ctTask'[t].callNo # ctTask[t].callNo /\ ctTask'[t].key # NoKey
                /\ ~RedisGet(cache, ctTask'[t].key).present
                /\ RequestsNeeded(ctTask'[t].resource, ctTask'[t].subject, planFree) > 0) =>
                ctTask'[t].pc = "fetch" /\ ctTask'[t].reqs = 0
      ]_vars

\* a read failed upstream, Redis holds nothing under its key, and a later
\* identical read is on its way upstream
C9_Witness ==
    \E t, u \in Tasks :
        /\ ctTask[t].failed /\ ctTask[t].reqs >= 1
        /\ ~RedisGet(cache, ctTask[t].key).present
        /\ ctTask[u].callNo > ctTask[t].callNo
        /\ ctTask[u].key = ctTask[t].key
        /\ ctTask[u].pc = "fetch"

\* the reads that are not under way
Finished == {t \in Tasks : ctTask[t].pc \in {"done", "raised"} /\ ctTask[t].callNo > 0}

\* C21 as stated: every get_quote, get_crypto, get_currency, get_inflation
\* and get_prime_rate call that has ended left one audit record: the log
\* holds as many records as calls were started and are not under way, and a
\* call that ended did not end by an exception that no record tells of.
C21_AsStated ==
    ctResource \in {"quote", "crypto", "currency", "inflation", "prime_rate"} =>
        /\ Len(apiCalls) =
              ctCalls - Cardinality({t \in Tasks : ctTask[t].pc \in {"fetch", "store"}})
        /\ \A t \in Finished : ctTask[t].pc = "done"

\* ---- the cache-through reads while time passes ----

\* entry lifetimes the clock runs through
MaxLifetimes == 1

\* Time passes between two steps of the reads: the clock moves on to the
\* last second of a lifetime of the entries this run stores, or from there
\* to the first second of the next one.
Tick ==
    /\ LET T == ResourceTtl(ctResource)
           d == IF now % T = T - 1 THEN 1 ELSE T - 1 - (now % T)
       IN  /\ now + d <= MaxLifetimes * T
           /\ now' = now + d
    /\ UNCHANGED <<cache, ctTask, ctCalls, hasToken, planFree, ctResource>>
    /\ UNCHANGED <<snapRows, apiCalls>>
    /\ UNCHANGED notCt

\* the reads of a deployment that has a token and is on the free plan
InitTtl == InitCache /\ hasToken /\ planFree

\* the reads whose subject names one thing, or nothing
TtlInputs == {in \in ReadInputs : Len(SplitNonBlank(in.subject)) <= 1}

NextTtl ==
    \/ \E t \in Tasks, in \in TtlInputs : CtBegin(t, in)
    \/ \E t \in Tasks, o \in RequestOutcomesFor(ctResource) : CtRequest(t, o)
    \/ \E t \in Tasks, valid \in BOOLEAN : CtStore(t, valid)
    \/ Tick

SpecTtl == InitTtl /\ [][NextTtl]_vars

\* C11 as stated: a read that starts while the entry of its key is within
\* its TTL is served from the cache without an upstream request, one that
\* starts at or after the expiry misses and goes on to an upstream request;
\* every stored entry has an expiry.
C11_AsStated ==
    /\ [](\A k \in DOMAIN cache : cache[k].ttl > 0)
    /\ [][\A t \in Tasks :
            LET me == ctTask'[t]
                k == me.key
            IN  (me.callNo # ctTask[t].callNo /\ k \in DOMAIN cache) =>
                   IF now < cache[k].at + cache[k].ttl
                   THEN /\ me.pc = "done" /\ me.result.cached /\ me.reqs = 0
                        /\ me.result.payload = cache[k].value
                        /\ cache' = cache
                   ELSE /\ ~me.result.cached
                        /\ me.pc = "fetch" /\ me.pending >= 1
       ]_vars

\* C11 (amended): as stated, except that the read that misses goes on to
\* the client, which sends the requests of the read: none when the subject
\* holds no non-blank ticker, and the read then stores the empty result
\* anew.
C11_TtlRespected ==
    /\ [](\A k \in DOMAIN cache : cache[k].ttl > 0)
    /\ [][\A t \in Tasks :
            LET me == ctTask'[t]
                k == me.key
            IN  (me.callNo # ctTask[t].callNo /\ k \in DOMAIN cache) =>
                   IF now < cache[k].at + cache[k].ttl
                   THEN /\ me.pc = "done" /\ me.result.cached /\ me.reqs = 0
                        /\ me.result.payload = cache[k].value
                        /\ cache' = cache
                   ELSE /\ ~me.result.cached /\ me.reqs = 0
                        /\ me.pending = RequestsNeeded(me.resource, me.subject, planFree)
                        /\ me.pc = IF me.pending = 0 THEN "store" ELSE "fetch"
       ]_vars

\* C11 witness: an entry written at time t was served to a read in the last
\* second of its TTL, and the identical read one second later is on its way
\* upstream.
C11_Witness ==
    \E t, u \in Tasks :
        LET k == ctTask[t].key IN
        /\ k \in DOMAIN cache
        /\ ctTask[t].pc = "done" /\ ctTask[t].result.cached
        /\ ctTask[t].readAt = cache[k].at + cache[k].ttl - 1
        /\ ctTask[u].key = k
        /\ ctTask[u].readAt = cache[k].at + cache[k].ttl
        /\ ctTask[u].pc = "fetch" /\ ~ctTask[u].result.cached

\* ---- the retention sweeps ----

RetentionConfiguredAll == TRUE

\* Settings declares no retention_days_* field and ignores extra input:
\* reading settings.retention_days_snapshots raises AttributeError
RetentionConfigured == FALSE

\* delete(ApiCall).where(endpoint == r).where(created_at < cutoff_logs): the
\* rows older than the cutoff are the n oldest of the log
SweptApiCalls(log, r, n) ==
    SelectSeq([i \in 1..Len(log) |-> [row |-> log[i], old |-> i <= n]],
              LAMBDA x : ~(x.old /\ x.row.endpoint = r))

\* cleanup_cache_keys([r + ":*"])
SweptCache(c, r) == [k \in {j \in DOMAIN c : j.prefix # r} |-> c[k]]

\* cleanup_quote_artifacts, cleanup_crypto_artifacts and
\* cleanup_currency_artifacts, called by t: the cutoff of the snapshots is
\* computed first and raises; with the retention settings in place, the
\* m oldest snapshots and the audit records of the endpoint among the n
\* oldest are deleted and committed and the keys of the prefix removed.
CleanupArtifacts(t, r, m, n) ==
    /\ ctTask[t].pc \in {"idle", "done", "raised"}
    /\ ctCalls < MaxCalls
    /\ ctCalls' = ctCalls + 1
    /\ m <= snapRows /\ n <= Len(apiCalls)
    /\ LET base == [IdleTask EXCEPT !.resource = r, !.subject = "cleanup",
                                    !.callNo = ctCalls + 1, !.readAt = now]
       IN  IF ~RetentionConfigured
           THEN /\ m = 0 /\ n = 0
                /\ ctTask' = [ctTask EXCEPT ![t] = [base EXCEPT !.pc = "raised",
                                                                !.failed = TRUE]]
                /\ UNCHANGED <<cache, apiCalls, snapRows>>
           ELSE /\ ctTask' = [ctTask EXCEPT ![t] = [base EXCEPT !.pc = "done"]]
                /\ snapRows' = snapRows - m
                /\ apiCalls' = [i \in 1..Len(SweptApiCalls(apiCalls, r, n)) |->
                                  SweptApiCalls(apiCalls, r, n)[i].row]
                /\ cache' = SweptCache(cache, r)
    /\ UNCHANGED <<hasToken, planFree, ctResource, now>>
    /\ UNCHANGED notCt

SweptResources == {"quote", "crypto", "currency"}

\* the reads and the sweeps
NextSweep ==
    \/ \E t \in Tasks, in \in TtlInputs : CtBegin(t, in)
    \/ \E t \in Tasks, o \in RequestOutcomesFor(ctResource) : CtRequest(t, o)
    \/ \E t \in Tasks, valid \in BOOLEAN : CtStore(t, valid)
    \/ \E t \in Tasks, r \in SweptResources, m \in 0..snapRows,
          n \in 0..Len(apiCalls) : CleanupArtifacts(t, r, m, n)

SpecSweep == InitCache /\ [][NextSweep]_vars

Acquirers == 10

\* leak intervals the clock runs through
MaxClock == 10

\* AsyncLimiter(max_rate=3, time_period=1)
MAX_RATE == 3
TIME_PERIOD == 1

\* the leak intervals in `seconds` seconds
Intervals(seconds) == (seconds * MAX_RATE) \div TIME_PERIOD

\* AsyncLimiter.has_capacity(1) on a bucket at this level
HasCapacity(level) == level + 1 <= MAX_RATE

\* acquisitions started so far
Arrived == LET s[r \in LimResources] ==
                   lim.waiting[r] + lim.granted[r] + lim.refused[r]
           IN  s["quote"] + s["prime_rate_available"]

TokenGatedNone(resource) == FALSE

\* the resources of the BrapiClient methods that pass require_token=True
TokenGated(resource) ==
    resource \in {"crypto", "quote_list", "currency_available", "crypto_available",
                  "inflation_available", "prime_rate_available"}

\* BrapiClient._request_json up to `async with limiter`: without the token
\* a gated call raises ValueError at once; otherwise the caller asks the
\* limiter of the resource for a permit.
LimArrive(r) ==
    /\ Arrived < Acquirers
    /\ lim' = IF TokenGated(r) /\ ~lim.token
              THEN [lim EXCEPT !.refused[r] = @ + 1]
              ELSE [lim EXCEPT !.waiting[r] = @ + 1]
    /\ UNCHANGED notLim

\* The bucket has room: a waiting caller gets its permit and, inside the
\* `async with`, hands the request to send_request_with_retry.
LimGrant(r) ==
    /\ lim.waiting[r] > 0
    /\ HasCapacity(lim.level[r])
    /\ lim' = [lim EXCEPT !.waiting[r] = @ - 1, !.granted[r] = @ + 1,
                          !.level[r] = @ + 1,
                          !.sent = @ \cup {[resource |-> r, by |-> "_request_json",
                                            held |-> TRUE]}]
    /\ UNCHANGED notLim

\* one leak interval passes: every bucket leaks one permit
LimTick ==
    /\ lim.clock < MaxClock
    /\ lim' = [lim EXCEPT !.clock = @ + 1,
                          !.level = [r \in LimResources |->
                                        IF lim.level[r] > 0 THEN lim.level[r] - 1 ELSE 0]]
    /\ UNCHANGED notLim

\* prime_rate_scan_service._fetch_available_countries: with a token set, a
\* GET through an httpx.AsyncClient of its own; no limiter is asked.
ProbeAvailableCountries ==
    /\ lim.token
    /\ lim' = [lim EXCEPT !.sent = @ \cup {[resource |-> "prime_rate_available",
                                            by |-> "_fetch_available_countries",
                                            held |-> FALSE]}]
    /\ UNCHANGED notLim

InitLimiter ==
    /\ IdleButLim
    /\ lim \in {[NoLim EXCEPT !.token = b] : b \in BOOLEAN}

NextLimiter ==
    \/ \E r \in LimResources : LimArrive(r)
    \/ \E r \in LimResources : LimGrant(r)
    \/ LimTick
    \/ ProbeAvailableCountries

SpecLimiter == InitLimiter /\ [][NextLimiter]_vars

\* C12 as stated: when ten acquisitions on the limiter of one resource have
\* all been granted, at least three seconds have passed since the first of
\* them started.
C12_AsStated ==
    \A r \in LimResources :
        lim.granted[r] = Acquirers => lim.clock >= Intervals(3)

\* C13 as stated: every HTTP request sent upstream was sent by a caller
\* holding a permit of the limiter of the request's resource.
C13_AsStated == \A s \in lim.sent : s.held

\* C23: a _request_json call for the credential-gated resource made without
\* a token ends in the step it is made in, with the ValueError: in that
\* step nobody joins the waiters of a limiter, no permit is granted and no
\* request is sent; without a token, no caller of BrapiClient ever waits
\* for or holds a permit of the gated resource and no request for it was
\* sent through _request_json; with a token no call is refused.
C23_CredentialFailsFast ==
    /\ [][ \A r \in LimResources :
             lim'.refused[r] # lim.refused[r] =>
                /\ r = "prime_rate_available" /\ ~lim.token
                /\ lim'.refused[r] = lim.refused[r] + 1
                /\ lim'.waiting = lim.waiting /\ lim'.granted = lim.granted
                /\ lim'.level = lim.level /\ lim'.sent = lim.sent ]_vars
    /\ [](~lim.token =>
            /\ lim.waiting["prime_rate_available"] = 0
            /\ lim.granted["prime_rate_available"] = 0
            /\ \A s \in lim.sent : s.by = "_request_json" => s.resource = "quote")
    /\ [](lim.token => \A r \in LimResources : lim.refused[r] = 0)
    /\ [](lim.refused["quote"] = 0)

\* C23 witness: without a token, a call for the gated resource was refused
\* while a call for the quote resource got its permit and was sent.
C23_Witness ==
    /\ ~lim.token
    /\ lim.refused["prime_rate_available"] >= 1
    /\ lim.granted["quote"] >= 1
    /\ \E s \in lim.sent : s.resource = "quote"

(***************************************************************************)
(* Catalog synchronizer: app/services/catalog_service.py                   *)
(* A Python string is the sequence of its characters; an Optional[str] is  *)
(* a record that is either None or holds a string; a dict is a function    *)
(* from its keys.                                                          *)
(***************************************************************************)

MaxPageLen == 2
MaxPages == 2
MaxSyncRuns == 2
MaxRateLimited == 1

LowerCase ==
    <<"a", "b", "c", "d", "e", "f", "i", "k", "n", "o", "p", "r", "s", "t", "u", "x", "y">>
UpperCase ==
    <<"A", "B", "C", "D", "E", "F", "I", "K", "N", "O", "P", "R", "S", "T", "U", "X", "Y">>

Pos(c, letters) ==
    IF \E i \in DOMAIN letters : letters[i] = c
    THEN CHOOSE i \in DOMAIN letters : letters[i] = c
    ELSE 0

\* str.upper and str.lower, character by character
UpperChar(c) == IF Pos(c, LowerCase) > 0 THEN UpperCase[Pos(c, LowerCase)] ELSE c
LowerChar(c) == IF Pos(c, UpperCase) > 0 THEN LowerCase[Pos(c, UpperCase)] ELSE c
Upper(s) == [i \in 1..Len(s) |-> UpperChar(s[i])]
Lower(s) == [i \in 1..Len(s) |-> LowerChar(s[i])]

\* str.strip
RECURSIVE LStrip(_)
LStrip(s) == IF s # <<>> /\ Head(s) = " " THEN LStrip(Tail(s)) ELSE s
RECURSIVE RStrip(_)
RStrip(s) == IF s # <<>> /\ s[Len(s)] = " " THEN RStrip(SubSeq(s, 1, Len(s) - 1)) ELSE s
Strip(s) == RStrip(LStrip(s))

\* truth value of an Optional[str], and Python's "a or b"
Truthy(v) == ~v.none /\ v.s # <<>>
Or(a, b) == IF Truthy(a) THEN a ELSE b

\* dict.get(k)
Get(d, k) == IF k \in DOMAIN d THEN d[k] ELSE PyNone

STOCK == <<"s", "t", "o", "c", "k">>
FUND == <<"f", "u", "n", "d">>
BDR == <<"b", "d", "r">>
ETF == <<"e", "t", "f">>
INDEX == <<"i", "n", "d", "e", "x">>

\* type_mapping.get(type_lower, type_lower); the keys with accented letters
\* are outside the alphabet of the model
TypeMapping(t) ==
    CASE t \in {STOCK, <<"a", "c", "a", "o">>, <<"a", "c", "o", "e", "s">>} -> STOCK
      [] t \in {FUND, <<"f", "u", "n", "d", "o">>, <<"f", "u", "n", "d", "o", "s">>,
                <<"f", "i", "i">>} -> FUND
      [] t = BDR -> BDR
      [] t = ETF -> ETF
      [] t \in {INDEX, <<"i", "n", "d", "i", "c", "e">>} -> INDEX
      [] OTHER -> t

NormalizeAssetType(asset_type) ==
    IF ~Truthy(asset_type) THEN PyNone
    ELSE LET type_lower == Strip(Lower(asset_type.s))
         IN  IF type_lower = <<>> THEN PyNone ELSE Str(TypeMapping(type_lower))

HasValueNotNone(value) == ~value.none

\* _has_value
HasValue(value) == ~value.none /\ Strip(value.s) # <<>>

TickerNoUpper(s) == Strip(s)

\* the ticker of a listed item: .upper().strip()
TickerOf(s) == Strip(Upper(s))

StrItem(s) == [kind |-> "str", s |-> s, d |-> EmptyDict]
DictItem(d) == [kind |-> "dict", s |-> <<>>, d |-> d]

\* the Asset built from one item of the listing
AssetFromItem(item, default_type) ==
    IF item.kind = "str"
    THEN LET ticker == TickerOf(item.s)
         IN  [ticker |-> ticker, name |-> PyNone,
              type |-> IF Truthy(default_type) THEN NormalizeAssetType(default_type)
                       ELSE PyNone,
              sector |-> PyNone, segment |-> PyNone, isin |-> PyNone,
              logo_url |-> PyNone, raw |-> Dict([symbol |-> Str(ticker)])]
    ELSE LET d == item.d
         IN  [ticker |-> TickerOf(Or(Or(Get(d, "symbol"), Get(d, "stock")), Str(<<>>)).s),
              name |-> Or(Get(d, "name"), Get(d, "shortName")),
              type |-> NormalizeAssetType(Or(Get(d, "type"), default_type)),
              sector |-> Or(Get(d, "sector"), Get(d, "category")),
              segment |-> Or(Or(Or(Get(d, "segment"), Get(d, "industry")),
                                Get(d, "sector")), Get(d, "category")),
              isin |-> Get(d, "isin"),
              logo_url |-> Or(Get(d, "logourl"), Get(d, "logoUrl")),
              raw |-> Dict(d)]

\* _extract_assets_from_list: items without a ticker are dropped
RECURSIVE ExtractFrom(_, _)
ExtractFrom(results, default_type) ==
    IF results = <<>> THEN <<>>
    ELSE LET asset == AssetFromItem(Head(results), default_type)
             rest == ExtractFrom(Tail(results), default_type)
         IN  IF asset.ticker # <<>> THEN <<asset>> \o rest ELSE rest

\* payload.get("stocks") or payload.get("results") or []
ListedItems(payload) == IF payload.stocks # <<>> THEN payload.stocks ELSE payload.results

ExtractAssetsFromList(payload, default_type) ==
    ExtractFrom(ListedItems(payload), default_type)

\* _needs_enrichment
NeedsEnrichment(asset) ==
    IF ~Truthy(asset.name) THEN TRUE
    ELSE IF Truthy(asset.sector) /\ Truthy(asset.logo_url) THEN FALSE
    ELSE IF asset.raw.none \/ DOMAIN asset.raw.d = {} THEN TRUE
    ELSE DOMAIN asset.raw.d = {"symbol"}

ENRICH_MAX_ATTEMPTS == 3

EssentialFields ==
    {"currency", "marketCap", "shortName", "longName", "regularMarketChange",
     "regularMarketChangePercent", "regularMarketTime", "regularMarketPrice",
     "regularMarketDayHigh", "regularMarketDayRange", "regularMarketDayLow",
     "regularMarketVolume", "regularMarketPreviousClose", "regularMarketOpen",
     "fiftyTwoWeekRange", "fiftyTwoWeekLow", "fiftyTwoWeekHigh", "symbol", "logourl",
     "priceEarnings", "earningsPerShare"}

\* the retry loop of _enrich_asset over the outcomes of its client.quote
\* calls: the response it breaks out with, or a return without one
RECURSIVE EnrichLoop(_, _)
EnrichLoop(tries, attempt) ==
    LET o == tries[attempt + 1]
    IN  IF o.kind = "ok"
        THEN [got |-> TRUE, items |-> o.items, requests |-> attempt + 1]
        ELSE IF o.kind = "not_found" \/ attempt = ENRICH_MAX_ATTEMPTS - 1
        THEN [got |-> FALSE, items |-> <<>>, requests |-> attempt + 1]
        ELSE EnrichLoop(tries, attempt + 1)

\* the assignments of _enrich_asset from the first item of the response
EnrichFrom(asset, info) ==
    LET new_type == NormalizeAssetType(Get(info, "type"))
    IN  [ticker |-> asset.ticker,
         name |-> Or(Or(Get(info, "longName"), Get(info, "shortName")), asset.name),
         type |-> IF HasValue(new_type) /\ (~HasValue(asset.type) \/ new_type = asset.type)
                  THEN new_type ELSE asset.type,
         sector |-> Or(Get(info, "sector"), asset.sector),
         segment |-> Or(Or(Get(info, "industry"), Get(info, "sector")), asset.segment),
         isin |-> Or(Or(Get(info, "isin"), Get(info, "isinCode")), asset.isin),
         logo_url |-> Or(Or(Or(Get(info, "logourl"), Get(info, "logoUrl")),
                            Get(info, "logo")), asset.logo_url),
         raw |-> Dict([k \in (DOMAIN info) \cap EssentialFields |-> info[k]])]

\* _enrich_asset: the asset after the call and the requests the call made
EnrichAsset(asset, tries) ==
    IF ~NeedsEnrichment(asset) THEN [asset |-> asset, requests |-> 0]
    ELSE LET r == EnrichLoop(tries, 0)
         IN  IF ~r.got \/ r.items = <<>> THEN [asset |-> asset, requests |-> r.requests]
             ELSE [asset |-> EnrichFrom(asset, r.items[1]), requests |-> r.requests]

MergedFields == {"name", "type", "sector", "segment", "isin", "logo_url"}

\* the update of an existing row from the candidate (sync_assets)
MergeAsset(existing, asset) ==
    [ticker |-> existing.ticker,
     name |-> IF HasValue(asset.name) THEN asset.name ELSE existing.name,
     type |-> IF HasValue(asset.type) THEN asset.type ELSE existing.type,
     sector |-> IF HasValue(asset.sector) THEN asset.sector ELSE existing.sector,
     segment |-> IF HasValue(asset.segment) THEN asset.segment ELSE existing.segment,
     isin |-> IF HasValue(asset.isin) THEN asset.isin ELSE existing.isin,
     logo_url |-> IF HasValue(asset.logo_url) THEN asset.logo_url ELSE existing.logo_url,
     raw |-> IF ~asset.raw.none /\ DOMAIN asset.raw.d # {} THEN asset.raw ELSE existing.raw]

\* select(Asset).where(Asset.ticker == ticker): the index of the row, or 0
LookupAsset(table, ticker) ==
    IF \E i \in DOMAIN table : table[i].ticker = ticker
    THEN CHOOSE i \in DOMAIN table : table[i].ticker = ticker
    ELSE 0

HasMoreAlways(has_next, current_page, total_pages) == TRUE

\* has_more after a page: bool(payload.get("hasNextPage")); a bool is never
\* None, so the comparison of currentPage with totalPages is not reached
HasMore(has_next, current_page, total_pages) ==
    LET has_more == (has_next = "True")
        is_none == FALSE
    IN  IF is_none /\ current_page # -1 /\ total_pages # -1
        THEN current_page < total_pages
        ELSE has_more

\* ---- inputs ----

X == Str(<<"x">>)
Y == Str(<<"y">>)
Blank == Str(<<" ">>)
Empty == Str(<<>>)

\* the listing type the runs ask for
AssetTypes == {STOCK}

ListItems ==
    { StrItem(<<"b", " ">>),
      DictItem([symbol |-> Str(<<"A">>), name |-> X, type |-> Str(<<"F", "I", "I">>),
                sector |-> X, logourl |-> X]),
      DictItem([symbol |-> Str(<<"a">>), name |-> Empty, sector |-> PyNone,
                category |-> Blank, isin |-> Y, logoUrl |-> Blank]),
      DictItem([symbol |-> Blank, name |-> X]) }

ItemLists == UNION {[1..n -> ListItems] : n \in 0..MaxPageLen}

\* the paging fields the upstream may send with page p; the listing has at
\* most MaxPages pages
PageMetas(p) ==
    (IF p < MaxPages
     THEN {[has_next |-> "True", current_page |-> p, total_pages |-> p + 1]}
     ELSE {})
    \cup {[has_next |-> "False", current_page |-> p, total_pages |-> p],
          [has_next |-> "None", current_page |-> p, total_pages |-> p + 1]}

\* outcomes of client.quote_list: a payload, or an exception with the
\* status of its response (500 when it carries none)
ListOutcomes(p) ==
    {[kind |-> "ok", status |-> 200, stocks |-> IF k = "stocks" THEN l ELSE <<>>,
      results |-> IF k = "results" THEN l ELSE <<>>, meta |-> m] :
        k \in {"stocks", "results"}, l \in ItemLists, m \in PageMetas(p)}
    \cup {[kind |-> "error", status |-> s, stocks |-> <<>>, results |-> <<>>,
           meta |-> [has_next |-> "None", current_page |-> -1, total_pages |-> -1]] :
            s \in {429, 500}}

Infos ==
    { [symbol |-> Str(<<"A">>), longName |-> X, type |-> Str(<<"f", "i", "i">>),
       sector |-> Y, logourl |-> Y] }

EnrichFound == {[kind |-> "ok", items |-> <<i>>] : i \in Infos}

EnrichFinal ==
    {[kind |-> "not_found", items |-> <<>>], [kind |-> "ok", items |-> <<>>]}
    \cup EnrichFound

EnrichExc == [kind |-> "exc", items |-> <<>>]

\* the outcomes of the client.quote calls of one _enrich_asset call: an
\* answer at once, an answer after one or two failed calls, three failures
EnrichTries ==
    {<<f>> : f \in EnrichFinal} \cup {<<EnrichExc, f>> : f \in EnrichFound}
    \cup {<<EnrichExc, EnrichExc, f>> : f \in EnrichFound \cup {EnrichExc}}

\* no request is made for an asset that needs no enrichment
TriesFor(asset) == IF NeedsEnrichment(asset) THEN EnrichTries ELSE {<<>>}

\* ---- sync_assets ----

NextPageSkip(page, has_more) == IF has_more THEN page + 2 ELSE page

\* if has_more: page += 1
NextPage(page, has_more) == IF has_more THEN page + 1 ELSE page

OnRateLimitedAdvance(s) == [s EXCEPT !.page = @ + 1]

\* the handler of a 429 from the listing: sleep, then `continue` with the
\* page, the counters and has_more as they are
OnRateLimited(s) == s

OnFailureContinue(s) == s

\* the handler of any other exception: `raise e`, which the outer handler
\* counts in errors and raises again
OnFailure(s) == [s EXCEPT !.pc = "raised", !.stats.errors = @ + 1]

\* entry of sync_assets: a new client, zeroed stats, page 1
SyncBegin(asset_type) ==
    /\ sync.pc \in {"idle", "returned", "raised"}
    /\ syncRuns < MaxSyncRuns
    /\ syncRuns' = syncRuns + 1
    /\ sync' = [NoSync EXCEPT !.pc = "fetch", !.asset_type = asset_type, !.page = 1]
    /\ UNCHANGED <<assets, assetsDb, assetErrors, apiCalls, rateLimited>>
    /\ UNCHANGED notCat

\* One turn of the while loop up to the loop over the assets of the page:
\* the listing request, its audit record, the extraction.  An empty page
\* ends the run; a 429 repeats the page; any other error is logged and
\* raised.
SyncFetchPage(o) ==
    /\ sync.pc = "fetch"
    /\ LET asked == [sync EXCEPT !.requested = Append(@, sync.page)]
       IN  IF o.kind = "ok"
           THEN LET found == ExtractAssetsFromList(o, Str(sync.asset_type))
                IN  /\ apiCalls' = LogCall(apiCalls, "quote_list", FALSE, 200)
                    /\ UNCHANGED rateLimited
                    /\ sync' = IF found = <<>>
                               THEN [asked EXCEPT !.pc = "returned"]
                               ELSE [asked EXCEPT !.pc = "assets", !.assets = found,
                                                  !.next = 1,
                                                  !.has_next = o.meta.has_next,
                                                  !.current_page = o.meta.current_page,
                                                  !.total_pages = o.meta.total_pages]
           ELSE /\ apiCalls' = LogCall(apiCalls, "available", FALSE, o.status)
                /\ IF o.status = 429
                   THEN /\ rateLimited < MaxRateLimited
                        /\ rateLimited' = rateLimited + 1
                        /\ sync' = OnRateLimited(asked)
                   ELSE /\ sync' = OnFailure(asked)
                        /\ UNCHANGED rateLimited
    /\ assetsDb' = assets
    /\ UNCHANGED <<assets, assetErrors, syncRuns>>
    /\ UNCHANGED notCat

CountAssetUncounted(stats, existing) == [stats EXCEPT !.processed = @ + 1]

\* the counters of one turn of the loop over the assets: updated or
\* inserted, and then processed
CountAsset(stats, existing) ==
    [stats EXCEPT !.updated = IF existing THEN @ + 1 ELSE @,
                  !.inserted = IF existing THEN @ ELSE @ + 1,
                  !.processed = @ + 1]

InsertedRowListed(listed, enriched) == listed

\* session.add(asset) follows `await _enrich_asset(asset, client)`, and the
\* session holds the object itself: the row written by the commit is the
\* candidate as the enrichment calls of this turn left it
InsertedRow(listed, enriched) == enriched

\* One turn of the loop over the assets of the page: the lookup by ticker,
\* the merge into the existing row or the enrichment and insert of a new
\* one, the second enrichment of the candidate (which reaches storage only
\* when the candidate is the row just added), the counters.  After the
\* last asset of the page: the commit, the page counter and has_more.  A
\* commit that fails (committed = FALSE) rolls the page back and reaches
\* the handler of the loop, whose audit record is written or fails too
\* (logged).
SyncAssetThen(t1, t2, committed, logged) ==
    /\ sync.pc = "assets"
    /\ sync.next <= Len(sync.assets)
    /\ LET asset == sync.assets[sync.next]
           i == LookupAsset(assets, asset.ticker)
           first == IF i > 0 THEN [asset |-> asset, requests |-> 0]
                    ELSE EnrichAsset(asset, t1)
           second == IF NeedsEnrichment(first.asset) THEN EnrichAsset(first.asset, t2)
                     ELSE [asset |-> first.asset, requests |-> 0]
           rejected == i = 0 /\ \E j \in DOMAIN assets : assets[j].ticker = asset.ticker
           table == IF i > 0 THEN [assets EXCEPT ![i] = MergeAsset(assets[i], asset)]
                    ELSE IF rejected THEN assets
                    ELSE Append(assets, InsertedRow(asset, second.asset))
           stats == CountAsset(sync.stats, i > 0)
           has_more == HasMore(sync.has_next, sync.current_page, sync.total_pages)
           during == [sync EXCEPT !.assets[sync.next] = second.asset, !.next = @ + 1,
                                  !.stats = stats]
       IN  /\ t1 \in (IF i > 0 THEN {<<>>} ELSE TriesFor(asset))
           /\ t2 \in TriesFor(first.asset)
           /\ assetErrors' = IF rejected THEN assetErrors + 1 ELSE assetErrors
           /\ IF sync.next < Len(sync.assets)
              THEN /\ committed /\ logged
                   /\ assets' = table
                   /\ sync' = during
                   /\ UNCHANGED <<assetsDb, apiCalls>>
              ELSE IF committed
              THEN /\ logged
                   /\ assets' = table
                   /\ assetsDb' = table
                   /\ sync' = [during EXCEPT
                                 !.stats.pages = @ + 1,
                                 !.page = NextPage(@, has_more),
                                 !.pc = IF has_more THEN "fetch" ELSE "returned"]
                   /\ UNCHANGED apiCalls
              ELSE /\ assets' = assetsDb
                   /\ UNCHANGED assetsDb
                   /\ apiCalls' = IF logged
                                  THEN LogCall(apiCalls, "available", FALSE, 500)
                                  ELSE apiCalls
                   /\ sync' = OnFailure(during)
    /\ UNCHANGED <<syncRuns, rateLimited>>
    /\ UNCHANGED notCat

\* the page's commit goes through
SyncAsset(t1, t2) == SyncAssetThen(t1, t2, TRUE, TRUE)

\* session.commit() of the page raises
SyncCommitError(t1, t2, logged) == SyncAssetThen(t1, t2, FALSE, logged)

InitCatalog == IdleButCat /\ AuditIdle /\ CatIdle

NextCatalog ==
    \/ \E t \in AssetTypes : SyncBegin(t)
    \/ \E o \in ListOutcomes(sync.page) : SyncFetchPage(o)
    \/ \E t1, t2 \in EnrichTries \cup {<<>>} : SyncAsset(t1, t2)

SpecCatalog == InitCatalog /\ [][NextCatalog]_vars

\* sync_assets against a database whose commit of a page may fail
\* the listings sent under "stocks" with hasNextPage present, and the
\* enrichments answered at once
DbListOutcomes(p) ==
    {o \in ListOutcomes(p) : o.results = <<>> /\ o.meta.has_next # "None"}

DbEnrichTries == {<<f>> : f \in EnrichFinal} \cup {<<>>}

NextCatalogDb ==
    \/ \E t \in AssetTypes : SyncBegin(t)
    \/ \E o \in DbListOutcomes(sync.page) : SyncFetchPage(o)
    \/ \E t1, t2 \in DbEnrichTries : SyncAsset(t1, t2)
    \/ \E t1, t2 \in DbEnrichTries, logged \in BOOLEAN :
          SyncCommitError(t1, t2, logged)

SpecCatalogDb == InitCatalog /\ [][NextCatalogDb]_vars

\* the run keeps being scheduled: the awaits of the listing request and of
\* the statements of the loop over the assets complete
\* The listings are those sent under "stocks" with at most one item, the
\* enrichments those answered at once with not found or without results.
FairListOutcomes(p) ==
    {o \in ListOutcomes(p) : o.results = <<>> /\ Len(o.stocks) <= 1}

FairEnrichTries ==
    {<<>>} \cup {<<f>> : f \in {[kind |-> "not_found", items |-> <<>>],
                                [kind |-> "ok", items |-> <<>>]}}

FetchPageFair ==
    /\ sync.pc = "fetch"
    /\ \E o \in FairListOutcomes(sync.page) : SyncFetchPage(o)

AssetFair ==
    /\ sync.pc = "assets"
    /\ \E t1, t2 \in FairEnrichTries : SyncAsset(t1, t2)

NextCatalogFair ==
    \/ \E t \in AssetTypes : SyncBegin(t)
    \/ FetchPageFair
    \/ AssetFair

SpecCatalogFair ==
    /\ InitCatalog
    /\ [][NextCatalogFair]_vars
    /\ WF_vars(FetchPageFair)
    /\ WF_vars(AssetFair)

\* None, empty, or blank after trimming
IsBlank(v) == v.none \/ \A i \in DOMAIN v.s : v.s[i] = " "

\* C6: in every step, each row already in the assets table stays in place
\* and, for each of name, type, sector, segment, isin and logo_url, a value
\* that is not blank is never replaced by a blank one; a field changes only
\* while sync_assets handles a candidate of that ticker whose value for the
\* field is not blank, and it changes to that value.  The committed table
\* never loses a non-blank value either.
C6_MergeNeverBlanks ==
    [][ /\ \A i \in DOMAIN assets :
              /\ i \in DOMAIN assets'
              /\ assets'[i].ticker = assets[i].ticker
              /\ \A f \in MergedFields :
                    /\ ~IsBlank(assets[i][f]) => ~IsBlank(assets'[i][f])
                    /\ assets'[i][f] # assets[i][f] =>
                          /\ sync.pc = "assets"
                          /\ sync.assets[sync.next].ticker = assets[i].ticker
                          /\ ~IsBlank(sync.assets[sync.next][f])
                          /\ assets'[i][f] = sync.assets[sync.next][f]
        /\ \A i \in DOMAIN assetsDb :
              /\ i \in DOMAIN assetsDb'
              /\ assetsDb'[i].ticker = assetsDb[i].ticker
              /\ \A f \in MergedFields :
                    ~IsBlank(assetsDb[i][f]) => ~IsBlank(assetsDb'[i][f])
      ]_vars

\* C6 witness: a committed page listed one ticker twice, first with a value
\* for some field and then with a blank one, and the row kept the first.
C6_Witness ==
    /\ sync.pc \in {"fetch", "returned"}
    /\ Len(sync.assets) = 2
    /\ sync.next = 3
    /\ sync.assets[1].ticker = sync.assets[2].ticker
    /\ \E i \in DOMAIN assetsDb, f \in MergedFields :
          /\ assetsDb[i].ticker = sync.assets[2].ticker
          /\ ~IsBlank(sync.assets[1][f])
          /\ IsBlank(sync.assets[2][f])
          /\ assetsDb[i][f] = sync.assets[1][f]

\* not empty, no blank at either end, no lower-case letter
IsTrimmedUpper(t) ==
    /\ t # <<>>
    /\ t[1] # " "
    /\ t[Len(t)] # " "
    /\ \A i \in DOMAIN t : Pos(t[i], LowerCase) = 0

TickersOf(table) == {table[i].ticker : i \in DOMAIN table}

\* C7: the assets table, as the run sees it and as committed, never holds
\* two rows with one ticker; every ticker is non-empty, trimmed and upper
\* case; the unique constraint never had to reject an insert; and no step
\* removes a ticker from the table.
C7_OneAssetPerTicker ==
    /\ [](\A table \in {assets, assetsDb} :
            /\ \A i, j \in DOMAIN table : table[i].ticker = table[j].ticker => i = j
            /\ \A i \in DOMAIN table : IsTrimmedUpper(table[i].ticker))
    /\ [](assetErrors = 0)
    /\ [][ /\ TickersOf(assets) \subseteq TickersOf(assets')
           /\ TickersOf(assetsDb) \subseteq TickersOf(assetsDb') ]_vars

\* C7 witness: a committed page listed one ticker twice, as "A" and as "a",
\* and the table holds one row for it.
C7_Witness ==
    /\ sync.pc \in {"fetch", "returned"}
    /\ Len(sync.assets) = 2
    /\ sync.next = 3
    /\ Get(sync.assets[1].raw.d, "symbol") = Str(<<"A">>)
    /\ Get(sync.assets[2].raw.d, "symbol") = Str(<<"a">>)
    /\ Cardinality({i \in DOMAIN assetsDb : assetsDb[i].ticker = <<"A">>}) = 1
    /\ Cardinality({i \in DOMAIN assets : assets[i].ticker = <<"A">>}) = 1

(***************************************************************************)
(* BrapiClient.quote: app/services/brapi_client.py.  A ticker and a plan   *)
(* are sequences of characters; a parameter mapping and a response         *)
(* payload are functions from their keys to sequences; a request is the    *)
(* ticker part of its path and its parameters.                             *)
(***************************************************************************)

MaxQuoteTickers == 2

\* d[k] = v
Put(d, k, v) == [x \in DOMAIN d \cup {k} |-> IF x = k THEN v ELSE d[x]]

\* d.pop(k, None)
Pop(d, k) == [x \in DOMAIN d \ {k} |-> d[x]]

\* ",".join(strs)
RECURSIVE JoinComma(_)
JoinComma(strs) ==
    IF strs = <<>> THEN <<>>
    ELSE strs[1] \o (IF Len(strs) > 1 THEN <<",">> ELSE <<>>) \o JoinComma(Tail(strs))

\* tickers_list
TickersList(tickers) ==
    LET kept == SelectSeq(tickers, LAMBDA t : t # <<>> /\ Strip(t) # <<>>)
    IN  [i \in 1..Len(kept) |-> Upper(Strip(kept[i]))]

\* is_free_plan
IsFreePlan(plan, plan_free) ==
    IF plan.none THEN plan_free ELSE Lower(plan.s) = <<"f", "r", "e", "e">>

\* _build_params; dividends and fundamental are "None", "True" or "False"
BuildParams(base, kw, allow_modules) ==
    LET p0 == IF base.none THEN EmptyDict ELSE base.d
        p1 == IF ~kw.range.none THEN Put(p0, "range", kw.range.s) ELSE p0
        p2 == IF ~kw.interval.none THEN Put(p1, "interval", kw.interval.s) ELSE p1
        p3 == CASE kw.dividends = "True" -> Put(p2, "dividends", <<"true">>)
                [] kw.dividends = "False" -> Put(p2, "dividends", <<"false">>)
                [] OTHER -> p2
        fundamental_flag ==
            CASE kw.fundamental = "True" -> <<"true">>
              [] kw.fundamental = "False" -> <<"false">>
              [] OTHER -> <<>>
        p4 == IF fundamental_flag # <<>> /\ allow_modules
              THEN Put(p3, "fundamental", fundamental_flag) ELSE p3
    IN  IF Truthy(kw.modules) /\ allow_modules
        THEN Put(p4, "modules", JoinComma(kw.modules.s)) ELSE p4

PopPremiumNot(params) == params

\* effective_params.pop("fundamental", None); effective_params.pop("modules", None)
PopPremium(params) == Pop(Pop(params, "fundamental"), "modules")

\* effective_params
EffectiveParams(base, kw, is_free_plan) ==
    LET built == BuildParams(base, kw, ~is_free_plan)
    IN  IF is_free_plan THEN PopPremium(built) ELSE built

\* the requests of one call, in the order they are awaited: one batched
\* request off the free plan with several tickers, else one per ticker
QuoteRequests(tickers_list, params, is_free_plan) ==
    IF ~is_free_plan /\ Len(tickers_list) > 1
    THEN << [path |-> JoinComma(tickers_list), params |-> params] >>
    ELSE [i \in 1..Len(tickers_list) |-> [path |-> tickers_list[i], params |-> params]]

PreferredMetaKeys == {"requestedAt", "usedRange", "usedInterval", "fromCache", "took"}

\* payload.get("results") or payload.get("stocks") or []
PayloadStocks(payload) ==
    IF "results" \in DOMAIN payload /\ payload["results"] # <<>> THEN payload["results"]
    ELSE IF "stocks" \in DOMAIN payload THEN payload["stocks"]
    ELSE <<>>

\* the merge loop: aggregated after the payloads of responses
RECURSIVE Aggregated(_, _)
Aggregated(responses, aggregated) ==
    IF responses = <<>> THEN aggregated
    ELSE LET payload == Head(responses)
             fresh == (DOMAIN payload \cap PreferredMetaKeys) \ DOMAIN aggregated
             merged == aggregated["results"] \o PayloadStocks(payload)
         IN  Aggregated(Tail(responses),
                        [k \in DOMAIN aggregated \cup fresh |->
                            IF k = "results" THEN merged
                            ELSE IF k \in fresh THEN payload[k] ELSE aggregated[k]])

\* what quote returns once every response is in
QuoteResult(responses) ==
    IF Len(responses) = 1 THEN responses[1]
    ELSE Aggregated(responses, [results |-> <<>>])

(***************************************************************************)
(* OHLCV synchronizer: app/services/ohlcv_service.py (backfill_ohlcv,      *)
(* update_ohlcv_latest) and app/services/quote_service.py                  *)
(* (fetch_and_enrich_asset).  A table is the set of its rows; of the value *)
(* columns of a bar (open, high, low, close, volume, adj_close, raw) the   *)
(* model keeps close, of a dividend amount, of a TTM row data.  A datetime *)
(* is its epoch second and millisecond.                                    *)
(***************************************************************************)

MaxTickers == 2
MaxBars == 2
MaxDividends == 2
MaxOhRuns == 2

Million == 1000000
Thousand == 1000

\* a timestamp field of a payload: None, the integer hi * 10^6 + lo, the
\* ISO-8601 string of the instant hi * 10^6 + lo, or some other text
TsNone == [kind |-> "none", hi |-> 0, lo |-> 0]
TsInt(hi, lo) == [kind |-> "int", hi |-> hi, lo |-> lo]
TsIso(hi, lo) == [kind |-> "iso", hi |-> hi, lo |-> lo]
TsText == [kind |-> "text", hi |-> 0, lo |-> 0]

At(sec, ms) == [none |-> FALSE, sec |-> sec, ms |-> ms]

\* ts_int > 1e12
IsMilliseconds(ts) == ts.hi > Million \/ (ts.hi = Million /\ ts.lo > 0)

\* _parse_timestamp: int(ts) raises ValueError for a string that is not a
\* number, and the result is None
ParseTimestamp(ts) ==
    IF ts.kind # "int" THEN NoDate
    ELSE IF IsMilliseconds(ts)
    THEN At(ts.hi * Thousand + (ts.lo \div Thousand), ts.lo % Thousand)
    ELSE At(ts.hi * Million + ts.lo, 0)

\* _ts_to_datetime: a number is taken as seconds (a millisecond value is
\* beyond year 9999: fromtimestamp raises and the result is None), a string
\* goes through fromisoformat
TsToDatetime(ts) ==
    CASE ts.kind = "int" -> IF ts.hi >= Million THEN NoDate
                            ELSE At(ts.hi * Million + ts.lo, 0)
      [] ts.kind = "iso" -> At(ts.hi * Million + ts.lo, 0)
      [] OTHER -> NoDate

\* _extract_ohlcv_from_quote, the loop over the points of an item: points
\* without a date are skipped
RECURSIVE ExtractPoints(_, _)
ExtractPoints(points, ticker) ==
    IF points = <<>> THEN <<>>
    ELSE LET date == ParseTimestamp(Head(points).date)
             rest == ExtractPoints(Tail(points), ticker)
         IN  IF date.none THEN rest
             ELSE <<[ticker |-> Strip(Upper(ticker)), date |-> date,
                     close |-> Head(points).close]>> \o rest

\* _extract_ohlcv_from_quote of a response with response.items result items
ExtractOhlcvFromQuote(response, ticker) ==
    IF response.items = 0 THEN <<>> ELSE ExtractPoints(response.points, ticker)

\* _extract_dividends: the rows of results[0].dividendsData.cashDividends
RECURSIVE ExtractCash(_, _)
ExtractCash(cash, symbol) ==
    IF cash = <<>> THEN <<>>
    ELSE LET item == Head(cash)
             ex_date == IF item.lastDatePrior.kind # "none" THEN item.lastDatePrior
                        ELSE item.exDate
         IN  <<[ticker |-> symbol, ex_date |-> TsToDatetime(ex_date),
                amount |-> item.rate]>> \o ExtractCash(Tail(cash), symbol)

LookupBarNone(table, ticker, date) == {}

\* select(QuoteOHLCV).where(ticker == .., date == ..): the rows found
LookupBar(table, ticker, date) == {r \in table : r.ticker = ticker /\ r.date = date}

LookupDividendNone(table, ticker, ex_date) == {}

\* select(Dividend).where(ticker == .., ex_date == ..): the rows found, the
\* ones added earlier in the session included (the session autoflushes)
LookupDividend(table, ticker, ex_date) ==
    {r \in table : r.ticker = ticker /\ r.ex_date = ex_date}

LookupTtm(table, ticker) == {r \in table : r.ticker = ticker}

CountAsInserted(stats, found) == [stats EXCEPT !.inserted = @ + 1]

\* the counter an upsert of backfill_ohlcv increments
CountUpsert(stats, found) ==
    IF found THEN [stats EXCEPT !.updated = @ + 1] ELSE [stats EXCEPT !.inserted = @ + 1]

\* One turn of the upsert loop over the bars: the row found is updated in
\* place, otherwise the bar is added; the unique constraint on
\* (ticker, date) rejects an added row whose key is stored.
UpsertBar(st, ohlcv) ==
    LET existing == LookupBar(st.table, ohlcv.ticker, ohlcv.date)
        taken == \E r \in st.table : r.ticker = ohlcv.ticker /\ r.date = ohlcv.date
    IN  IF existing # {}
        THEN [st EXCEPT !.table = (@ \ existing)
                                  \cup {[r EXCEPT !.close = ohlcv.close] : r \in existing},
                        !.stats = CountUpsert(@, TRUE)]
        ELSE [st EXCEPT !.table = IF taken THEN @ ELSE @ \cup {ohlcv},
                        !.rejected = IF taken THEN @ + 1 ELSE @,
                        !.stats = CountUpsert(@, FALSE)]

RECURSIVE UpsertBars(_, _)
UpsertBars(st, ohlcv_list) ==
    IF ohlcv_list = <<>> THEN st
    ELSE UpsertBars(UpsertBar(st, Head(ohlcv_list)), Tail(ohlcv_list))

\* One turn of the loop over the dividends of fetch_and_enrich_asset: an
\* entry without ex_date is skipped
UpsertDividend(st, div) ==
    LET existing == LookupDividend(st.table, div.ticker, div.ex_date)
    IN  IF div.ex_date.none THEN st
        ELSE IF existing # {}
        THEN [st EXCEPT !.table = (@ \ existing)
                                  \cup {[r EXCEPT !.amount = div.amount] : r \in existing},
                        !.upserted = @ + 1]
        ELSE [st EXCEPT !.table = @ \cup {div}, !.upserted = @ + 1]

RECURSIVE UpsertDividends(_, _)
UpsertDividends(st, divs) ==
    IF divs = <<>> THEN st
    ELSE UpsertDividends(UpsertDividend(st, Head(divs)), Tail(divs))

\* the FinancialsTTM row of the symbol is overwritten, or added
UpsertTtm(table, symbol, ttm_data) ==
    LET existing == LookupTtm(table, symbol)
    IN  IF existing # {}
        THEN (table \ existing) \cup {[r EXCEPT !.data = ttm_data] : r \in existing}
        ELSE table \cup {[ticker |-> symbol, data |-> ttm_data]}

FETCH_MAX_RETRIES == 3

\* the retry loop of _fetch_quote_single over the outcomes of its
\* client.quote calls: the first answer, or the exception of the last call
RECURSIVE FetchQuoteSingle(_, _)
FetchQuoteSingle(tries, attempt) ==
    LET o == tries[attempt + 1]
    IN  IF o.kind = "ok" \/ attempt = FETCH_MAX_RETRIES - 1 THEN o
        ELSE FetchQuoteSingle(tries, attempt + 1)

\* client.quote sends nothing for a blank ticker and answers no results
EmptyAnswer == [kind |-> "ok", status |-> 200, items |-> 0, points |-> <<>>]

FetchQuote(ticker, tries) ==
    IF Strip(ticker) = <<>> THEN EmptyAnswer ELSE FetchQuoteSingle(tries, 0)

CaughtNotFoundOnly(exc) == exc.kind = "NotFoundError"

\* the exceptions the except clauses of _process_ticker_ohlcv catch:
\* NotFoundError, then Exception
CaughtPerTicker(exc) ==
    exc.kind \in {"NotFoundError", "HTTPStatusError", "TransportError"}

\* a not-found test that knows the NotFoundError type only
IsNotFoundTypeOnly(exc) == exc.kind = "NotFoundError"

\* status_code == 404 or "404" in error_text
IsNotFound(exc) ==
    exc.kind = "NotFoundError" \/ (exc.kind = "HTTPStatusError" /\ exc.status = 404)

\* a not-found that is counted as processed and falls through to the
\* error count as well
CountTickerTwice(stats, o) ==
    IF o.kind = "ok" THEN [stats EXCEPT !.processed = @ + 1]
    ELSE IF IsNotFound(o) THEN [stats EXCEPT !.processed = @ + 1, !.errors = @ + 1]
    ELSE [stats EXCEPT !.errors = @ + 1]

\* the counter _process_ticker_ohlcv increments for the ticker itself: a
\* fetch that succeeded and a not-found count as processed, any other
\* exception as an error
CountTicker(stats, o) ==
    IF o.kind = "ok" \/ IsNotFound(o) THEN [stats EXCEPT !.processed = @ + 1]
    ELSE [stats EXCEPT !.errors = @ + 1]

\* ---- inputs ----

TickerInputs == {<<"a">>, <<"B", " ">>}

\* the symbols fetch_and_enrich_asset is called with: one to trim and
\* upper-case, and a blank one
SymbolInputs == {<<"a", " ">>, <<" ">>}

TickerLists == UNION {[1..n -> TickerInputs] : n \in 0..MaxTickers}

\* one instant as epoch seconds and as epoch milliseconds, the next day,
\* and a date that is not a number
Points ==
    { [date |-> TsInt(1705, 123200), close |-> 1],
      [date |-> TsInt(1705123, 200000), close |-> 2],
      [date |-> TsInt(1705, 209600), close |-> 1],
      [date |-> TsIso(1705, 123200), close |-> 1] }

PointLists == UNION {[1..n -> Points] : n \in 0..MaxBars}

FetchOk ==
    {EmptyAnswer}
    \cup {[kind |-> "ok", status |-> 200, items |-> 1, points |-> l] : l \in PointLists}

TransportError == [kind |-> "TransportError", status |-> 0, items |-> 0, points |-> <<>>]

HTTPStatusError(status) ==
    [kind |-> "HTTPStatusError", status |-> status, items |-> 0, points |-> <<>>]

FetchErrors ==
    {[kind |-> "NotFoundError", status |-> 404, items |-> 0, points |-> <<>>],
     HTTPStatusError(404), HTTPStatusError(500), TransportError}

\* the outcomes of the client.quote calls of one _fetch_quote_single call:
\* an answer at once, an answer after one failed call, or two failed calls
\* and then an answer or the exception that is raised
FetchTries ==
    {<<o>> : o \in FetchOk}
    \cup {<<TransportError, o>> : o \in {EmptyAnswer}}
    \cup {<<TransportError, TransportError, o>> : o \in {EmptyAnswer} \cup FetchErrors}

\* the outcomes of the client.quote call of fetch_and_enrich_asset
EnrichAnswers == FetchOk \cup {HTTPStatusError(401), HTTPStatusError(500), TransportError}

DeniedAnyStatus(o) == o.kind = "HTTPStatusError"

\* exc.response.status_code in {401, 403}, of an httpx.HTTPStatusError
Denied(o) == o.kind = "HTTPStatusError" /\ o.status \in {401, 403}

PyBool(b) == IF b THEN "True" ELSE "False"

\* one client.quote([symbol], params=None, ...) call of fetch_and_enrich_asset:
\* its keyword arguments, the parameters of its request, its outcome
QuoteCallOf(kw, plan, o) ==
    [fundamental |-> kw.fundamental, modules |-> kw.modules, plan |-> plan,
     params |-> EffectiveParams(NoRaw, kw, IsFreePlan(plan, TRUE)),
     kind |-> o.kind, status |-> o.status, items |-> o.items]

\* the fallback call is made after a 401 or 403 only
FallbackAnswers(o) ==
    IF o.kind = "HTTPStatusError" /\ o.status \in {401, 403} THEN EnrichAnswers
    ELSE {NoFetch}

CashItems ==
    { [lastDatePrior |-> TsInt(1705, 123200), exDate |-> TsNone, rate |-> 1],
      [lastDatePrior |-> TsNone, exDate |-> TsIso(1705, 123200), rate |-> 2],
      [lastDatePrior |-> TsNone, exDate |-> TsText, rate |-> 1] }

CashLists == UNION {[1..n -> CashItems] : n \in 0..MaxDividends}

\* results[0].financialData: 0 when the response has none
Financials == {0, 1}

\* ---- backfill_ohlcv, update_ohlcv_latest ----

\* entry of backfill_ohlcv, directly or from update_ohlcv_latest with the
\* range "5d": the stats record; an empty list returns at once
BfBegin(op, tickers) ==
    /\ oh.pc \in {"idle", "returned", "raised"}
    /\ ohRuns < MaxOhRuns
    /\ ohRuns' = ohRuns + 1
    /\ oh' = [NoOh EXCEPT !.op = op, !.tickers = tickers,
                          !.range = IF op = "update" THEN "5d" ELSE "3mo",
                          !.stats.total_requested = Len(tickers),
                          !.pc = IF tickers = <<>> THEN "returned" ELSE "running"]
    /\ UNCHANGED <<bars, dividends, ttm, ohErrors, ohScript, apiCalls, snapRows>>
    /\ UNCHANGED notOh

\* _process_ticker_ohlcv for the next ticker of the list: the fetch, the
\* audit record, the extraction, the upsert of each bar, the commit and the
\* counters; after the last ticker backfill_ohlcv returns the stats.
BfTicker(tries) ==
    /\ oh.pc = "running"
    /\ LET ticker == oh.tickers[oh.next]
           o == FetchQuote(ticker, tries)
           ohlcv_list == ExtractOhlcvFromQuote(o, ticker)
           done == UpsertBars([table |-> bars, stats |-> oh.stats, rejected |-> 0],
                              ohlcv_list)
           status == IF IsNotFound(o) THEN 404
                     ELSE IF o.kind = "HTTPStatusError" THEN o.status ELSE 500
           after == IF oh.next = Len(oh.tickers) THEN "returned" ELSE "running"
       IN  IF o.kind = "ok"
           THEN /\ apiCalls' = LogCall(apiCalls, "quote_backfill", FALSE, 200)
                /\ bars' = done.table
                /\ ohErrors' = ohErrors + done.rejected
                /\ oh' = [oh EXCEPT !.stats = CountTicker(done.stats, o),
                                    !.last = o, !.next = @ + 1, !.pc = after]
           ELSE IF CaughtPerTicker(o)
           THEN /\ apiCalls' = LogCall(apiCalls, "quote_backfill", FALSE, status)
                /\ oh' = [oh EXCEPT !.stats = CountTicker(oh.stats, o),
                                    !.last = o, !.next = @ + 1, !.pc = after]
                /\ UNCHANGED <<bars, ohErrors>>
           ELSE /\ oh' = [oh EXCEPT !.last = o, !.pc = "raised"]
                /\ UNCHANGED <<bars, ohErrors, apiCalls>>
    /\ UNCHANGED <<dividends, ttm, ohRuns, ohScript, snapRows>>
    /\ UNCHANGED notOh

\* ---- fetch_and_enrich_asset ----

\* From the entry to the end of the loop over the bars: the symbol is
\* trimmed and upper-cased (a blank one raises), the quote is fetched, once
\* more without fundamental data after a 401 or 403; any other error is
\* raised.  Then, in a session of its own, the snapshots are added and
\* each bar is upserted.  Of the response the later steps read the number
\* of result items, which oh.last keeps.
EnFetch(symbol_in, with_dividends, fundamental, with_modules, plan, o1, o2) ==
    /\ oh.pc \in {"idle", "returned", "raised"}
    /\ ohRuns < MaxOhRuns
    /\ ohRuns' = ohRuns + 1
    /\ LET symbol == Upper(Strip(symbol_in))
           denied == Denied(o1)
           response == IF denied THEN o2 ELSE o1
           kw == [range |-> Str(<<"3mo">>), interval |-> Str(<<"1d">>),
                  dividends |-> PyBool(with_dividends),
                  fundamental |-> PyBool(fundamental),
                  modules |-> IF with_modules THEN Str(<< <<"financialData">> >>)
                              ELSE PyNone]
           calls == IF denied
                    THEN << QuoteCallOf(kw, plan, o1),
                            QuoteCallOf([kw EXCEPT !.fundamental = "False",
                                                   !.modules = PyNone], plan, o2) >>
                    ELSE << QuoteCallOf(kw, plan, o1) >>
           run == [NoOh EXCEPT !.op = "enrich", !.tickers = <<symbol>>, !.range = "3mo",
                               !.dividends = with_dividends, !.modules = with_modules,
                               !.last = response,
                               !.calls = IF symbol = <<>> THEN <<>> ELSE calls]
           ohlcv_entries == ExtractOhlcvFromQuote(response, symbol)
           done == UpsertBars([table |-> bars, stats |-> NoBackfillStats, rejected |-> 0],
                              ohlcv_entries)
       IN  IF symbol = <<>>
           THEN /\ oh' = [run EXCEPT !.pc = "raised", !.last = NoFetch]
                /\ UNCHANGED <<bars, ohErrors, snapRows>>
           ELSE IF response.kind # "ok"
           THEN /\ oh' = [run EXCEPT !.pc = "raised"]
                /\ UNCHANGED <<bars, ohErrors, snapRows>>
           ELSE /\ snapRows' = snapRows + response.items
                /\ bars' = done.table
                /\ ohErrors' = ohErrors + done.rejected
                /\ oh' = [run EXCEPT !.pc = "dividends", !.last.points = <<>>,
                                     !.result.ohlcv_rows_upserted = Len(ohlcv_entries)]
    /\ UNCHANGED <<dividends, ttm, ohScript, apiCalls>>
    /\ UNCHANGED notOh

\* fetch_and_enrich_asset with fundamental and plan left at their defaults
EnBegin(symbol_in, with_dividends, with_modules, o1, o2) ==
    EnFetch(symbol_in, with_dividends, TRUE, with_modules, Str(<<"f", "r", "e", "e">>),
            o1, o2)

\* The loop over the dividends; cash is the cashDividends list of the
\* response, read when the dividends are asked for and the response has a
\* result item.
EnDividends(cash) ==
    /\ oh.pc = "dividends"
    /\ LET symbol == oh.tickers[1]
           dividends_entries == IF oh.dividends /\ oh.last.items > 0
                                THEN ExtractCash(cash, symbol) ELSE <<>>
           done == UpsertDividends([table |-> dividends, upserted |-> 0],
                                   dividends_entries)
       IN  /\ dividends' = done.table
           /\ oh' = [oh EXCEPT !.pc = "ttm",
                               !.result.dividends_rows_upserted = done.upserted]
    /\ UNCHANGED <<bars, ttm, ohErrors, ohRuns, ohScript, apiCalls, snapRows>>
    /\ UNCHANGED notOh

\* The TTM row and the commit; financial is the financialData of the
\* response, read when modules were asked for.
EnTtm(financial) ==
    /\ oh.pc = "ttm"
    /\ LET symbol == oh.tickers[1]
           ttm_data == IF oh.modules /\ oh.last.items > 0 THEN financial ELSE 0
       IN  /\ ttm' = IF ttm_data # 0 THEN UpsertTtm(ttm, symbol, ttm_data) ELSE ttm
           /\ oh' = [oh EXCEPT !.pc = "returned", !.ttm_data = ttm_data,
                               !.result.ttm_updated = (ttm_data # 0)]
    /\ UNCHANGED <<bars, dividends, ohErrors, ohRuns, ohScript, apiCalls, snapRows>>
    /\ UNCHANGED notOh

InitOhlcv == IdleButOh /\ SnapIdle /\ AuditIdle /\ OhIdle

NextOhlcv ==
    \/ \E op \in {"backfill", "update"}, tickers \in TickerLists : BfBegin(op, tickers)
    \/ \E tries \in FetchTries : BfTicker(tries)
    \/ \E symbol_in \in SymbolInputs, d, m \in BOOLEAN :
         \E o1 \in EnrichAnswers : \E o2 \in FallbackAnswers(o1) :
            EnBegin(symbol_in, d, m, o1, o2)
    \/ \E cash \in CashLists : EnDividends(cash)
    \/ \E financial \in Financials : EnTtm(financial)

SpecOhlcv == InitOhlcv /\ [][NextOhlcv]_vars

\* ---- one operation run again with the same input ----

\* a ticker list with the outcomes of the calls made for each ticker
BackfillScripts ==
    UNION {{[op |-> op, tickers |-> t, dividends |-> FALSE, modules |-> FALSE,
             tries |-> tr, cash |-> <<>>, financial |-> 0] :
               op \in {"backfill", "update"}, tr \in [1..Len(t) -> FetchTries]} :
           t \in TickerLists}

\* a symbol with the answers to the call and to the fallback call, and the
\* dividends and financial data of the response as far as they are read
EnrichScripts ==
    UNION {{[op |-> "enrich", tickers |-> <<sym>>, dividends |-> d, modules |-> m,
             tries |-> <<o1, o2>>, cash |-> c, financial |-> f] :
               sym \in SymbolInputs, o2 \in FallbackAnswers(o1),
               d \in BOOLEAN, m \in BOOLEAN,
               c \in CashLists, f \in Financials} :
           o1 \in EnrichAnswers}

InitRerun ==
    /\ IdleButOh /\ SnapIdle /\ AuditIdle
    /\ bars = {} /\ dividends = {} /\ ttm = {} /\ ohErrors = 0
    /\ oh = NoOh /\ ohRuns = 0
    /\ ohScript \in BackfillScripts
                   \cup {e \in EnrichScripts : /\ (e.dividends \/ e.cash = <<>>)
                                                /\ (e.modules \/ e.financial = 0)}

NextRerun ==
    \/ /\ ohScript.op \in {"backfill", "update"}
       /\ BfBegin(ohScript.op, ohScript.tickers)
    \/ BfTicker(ohScript.tries[oh.next])
    \/ /\ ohScript.op = "enrich"
       /\ EnBegin(ohScript.tickers[1], ohScript.dividends, ohScript.modules,
                  ohScript.tries[1], ohScript.tries[2])
    \/ EnDividends(ohScript.cash)
    \/ EnTtm(ohScript.financial)

SpecRerun == InitRerun /\ [][NextRerun]_vars

\* C1: the QuoteOHLCV table never holds two rows with one (ticker, date),
\* and the unique constraint never had to reject an insert: a bar whose key
\* is stored is found and updated, also when it was added earlier in the
\* handling of the same response.
C1_OneBarPerKey ==
    /\ \A r1, r2 \in bars : (r1.ticker = r2.ticker /\ r1.date = r2.date) => r1 = r2
    /\ ohErrors = 0

\* C1 witness: the response for the last ticker of a backfill listed one
\* date twice (as seconds and as milliseconds) and the table holds one bar
\* for it.
C1_Witness ==
    /\ oh.op \in {"backfill", "update"}
    /\ oh.pc = "returned"
    /\ oh.last.kind = "ok"
    /\ Len(oh.last.points) = 2
    /\ oh.last.points[1].date # oh.last.points[2].date
    /\ ~ParseTimestamp(oh.last.points[1].date).none
    /\ ParseTimestamp(oh.last.points[1].date) = ParseTimestamp(oh.last.points[2].date)
    /\ Cardinality({r \in bars : r.date = ParseTimestamp(oh.last.points[1].date)
                                  /\ r.ticker = Strip(Upper(oh.tickers[Len(oh.tickers)]))}) = 1

BarCount(table, ticker) == Cardinality({r \in table : r.ticker = ticker})

\* the bars the answers of the script yield
RECURSIVE ReturnedBars(_, _)
ReturnedBars(script, i) ==
    IF i > Len(script.tickers) THEN 0
    ELSE LET o == FetchQuote(script.tickers[i], script.tries[i])
         IN  (IF o.kind = "ok"
              THEN Len(ExtractOhlcvFromQuote(o, script.tickers[i])) ELSE 0)
             + ReturnedBars(script, i + 1)

\* C2: when an operation is run again with the same input and the same
\* upstream answers, no step of the second run changes, for any ticker, the
\* number of stored bars or of stored dividends; a second backfill or
\* update returns inserted = 0 and updated = the number of bars its
\* responses yield.
C2_IdempotentRerun ==
    /\ []((ohRuns >= 2 /\ oh.pc = "returned" /\ oh.op \in {"backfill", "update"})
            => (oh.stats.inserted = 0 /\ oh.stats.updated = ReturnedBars(ohScript, 1)))
    /\ [][ ohRuns' >= 2 =>
             \A t \in {r.ticker : r \in bars \cup bars' \cup dividends \cup dividends'} :
                 /\ BarCount(bars', t) = BarCount(bars, t)
                 /\ BarCount(dividends', t) = BarCount(dividends, t) ]_vars

\* C2 witness: a second backfill over two tickers returned; it updated two
\* or more bars and inserted none.
C2_Witness ==
    /\ ohRuns = 2
    /\ oh.op = "backfill"
    /\ oh.pc = "returned"
    /\ Len(oh.tickers) = 2
    /\ oh.stats.updated >= 2
    /\ oh.stats.inserted = 0
    /\ BarCount(bars, <<"A">>) >= 1

BarKeys(table) == {<<r.ticker, r.date>> : r \in table}

\* C3: backfill_ohlcv never ends by raising; when it returns, every ticker
\* of the list was attempted; after a ticker whose fetch succeeded, each
\* bar of the response is in the table with the values of the response; and
\* no later step takes a stored bar away.
C3_PartialFailureIsolation ==
    /\ [](oh.op \in {"backfill", "update"} =>
            /\ oh.pc # "raised"
            /\ (oh.pc = "returned" => oh.next = Len(oh.tickers) + 1)
            /\ (oh.next > 1 /\ oh.last.kind = "ok") =>
                  LET got == ExtractOhlcvFromQuote(oh.last, oh.tickers[oh.next - 1])
                  IN  \A i \in DOMAIN got :
                        /\ <<got[i].ticker, got[i].date>> \in BarKeys(bars)
                        /\ (\A j \in DOMAIN got : j > i => got[j].date # got[i].date)
                              => got[i] \in bars)
    /\ [][BarKeys(bars) \subseteq BarKeys(bars')]_vars

\* C3 witness: a backfill over two tickers returned; the fetch of the
\* first failed and the bars of the second are stored.
C3_Witness ==
    /\ oh.op = "backfill"
    /\ oh.pc = "returned"
    /\ Len(oh.tickers) = 2
    /\ oh.stats.errors = 1
    /\ oh.stats.processed = 1
    /\ oh.last.kind = "ok"
    /\ oh.stats.inserted >= 1
    /\ bars # {}

\* C14: when backfill_ohlcv has returned, total_requested is the length of
\* the ticker list, processed is at most that and processed + errors at
\* least that; the step for one ticker adds one to exactly one of processed
\* and errors; with an empty list the stats are all 0, no fetch was made
\* and no audit record written.
C14_StatsAccounting ==
    /\ []((oh.op \in {"backfill", "update"} /\ oh.pc = "returned") =>
            /\ oh.stats.total_requested = Len(oh.tickers)
            /\ oh.stats.processed <= oh.stats.total_requested
            /\ oh.stats.processed + oh.stats.errors >= oh.stats.total_requested
            /\ oh.tickers = <<>> => (oh.stats = NoBackfillStats /\ oh.last = NoFetch))
    /\ [][(oh.pc = "running" /\ oh'.next = oh.next + 1) =>
             /\ oh'.stats.processed >= oh.stats.processed
             /\ oh'.stats.errors >= oh.stats.errors
             /\ (oh'.stats.processed - oh.stats.processed)
                  + (oh'.stats.errors - oh.stats.errors) = 1
             /\ oh'.stats.total_requested = oh.stats.total_requested
       ]_vars
    /\ [][(ohRuns' # ohRuns /\ oh'.op \in {"backfill", "update"} /\ oh'.tickers = <<>>) =>
             (oh'.pc = "returned" /\ apiCalls' = apiCalls)]_vars

\* C14 witness: a backfill over two tickers returned with one ticker
\* counted as processed and the last one, whose fetch failed, as an error.
C14_Witness ==
    /\ oh.op = "backfill"
    /\ oh.pc = "returned"
    /\ oh.stats.total_requested = 2
    /\ oh.stats.processed = 1
    /\ oh.stats.errors = 1
    /\ oh.last.kind = "TransportError"

\* the fetch ended in a not-found: a NotFoundError, or an HTTP error with
\* status 404
NotFoundOutcome(o) ==
    o.kind = "NotFoundError" \/ (o.kind = "HTTPStatusError" /\ o.status = 404)

\* C15: the step for a ticker whose fetch ends in a not-found adds one to
\* processed, leaves errors, inserted, updated and the bars as they are,
\* appends one audit record with status 404 and goes on with the next
\* ticker (or returns after the last).
C15_NotFoundIsNotAnError ==
    [][(oh.pc = "running" /\ oh'.next = oh.next + 1 /\ NotFoundOutcome(oh'.last)) =>
          /\ oh'.stats = [oh.stats EXCEPT !.processed = @ + 1]
          /\ bars' = bars
          /\ Len(apiCalls') = Len(apiCalls) + 1
          /\ SubSeq(apiCalls', 1, Len(apiCalls)) = apiCalls
          /\ apiCalls'[Len(apiCalls')].status = 404
          /\ apiCalls'[Len(apiCalls')].endpoint = "quote_backfill"
          /\ oh'.pc = IF oh.next < Len(oh.tickers) THEN "running" ELSE "returned"
      ]_vars

\* C15 witness: the fetch of the first of two tickers ended in HTTP 404;
\* it is counted as processed, recorded with status 404, and the run goes
\* on.
C15_Witness ==
    /\ oh.op = "backfill"
    /\ oh.pc = "running"
    /\ Len(oh.tickers) = 2 /\ oh.next = 2
    /\ oh.last = HTTPStatusError(404)
    /\ oh.stats.processed = 1 /\ oh.stats.errors = 0
    /\ apiCalls # <<>>
    /\ apiCalls[Len(apiCalls)].status = 404

\* ---- backfill_ohlcv when a statement on the session fails ----

\* the statements of _process_ticker_ohlcv that can raise a persistence
\* error: the audit record of the good fetch, the select of the first bar,
\* the commit of the bars, the audit record an except clause writes
DbFaults == {"audit", "upsert", "commit", "handler_audit"}

\* _process_ticker_ohlcv for the next ticker when the statement `fault`
\* raises; handlerOk tells whether the audit record the except clause then
\* writes goes through.  An error inside the upsert loop is caught per bar
\* (errors + 1, the loop goes on); one in the first audit record or in the
\* commit is caught by `except Exception` (errors + 1, audit record); one in
\* an audit record written by an except clause is caught by nothing and
\* leaves backfill_ohlcv.
BfTickerDbError(tries, fault, handlerOk) ==
    /\ oh.pc = "running"
    /\ LET ticker == oh.tickers[oh.next]
           o == FetchQuote(ticker, tries)
           ohlcv_list == ExtractOhlcvFromQuote(o, ticker)
           rest == UpsertBars([table |-> bars, stats |-> oh.stats, rejected |-> 0],
                              Tail(ohlcv_list))
           all == UpsertBars([table |-> bars, stats |-> oh.stats, rejected |-> 0],
                             ohlcv_list)
           status == IF IsNotFound(o) THEN 404
                     ELSE IF o.kind = "HTTPStatusError" THEN o.status ELSE 500
           after == IF oh.next = Len(oh.tickers) THEN "returned" ELSE "running"
           Caught(stats, log) ==
               IF handlerOk
               THEN /\ apiCalls' = LogCall(log, "quote_backfill", FALSE, 500)
                    /\ oh' = [oh EXCEPT !.stats = [stats EXCEPT !.errors = @ + 1],
                                        !.last = o, !.next = @ + 1, !.pc = after]
               ELSE /\ apiCalls' = log
                    /\ oh' = [oh EXCEPT !.last = o, !.pc = "raised"]
       IN  IF o.kind = "ok"
           THEN CASE fault = "audit" ->
                       /\ Caught(oh.stats, apiCalls)
                       /\ UNCHANGED <<bars, ohErrors>>
                  [] fault = "upsert" ->
                       /\ ohlcv_list # <<>>
                       /\ apiCalls' = LogCall(apiCalls, "quote_backfill", FALSE, 200)
                       /\ bars' = rest.table
                       /\ ohErrors' = ohErrors + rest.rejected
                       /\ oh' = [oh EXCEPT
                                   !.stats = CountTicker([rest.stats EXCEPT !.errors = @ + 1], o),
                                   !.last = o, !.next = @ + 1, !.pc = after]
                  [] fault = "commit" ->
                       /\ ohlcv_list # <<>>
                       /\ Caught(all.stats, LogCall(apiCalls, "quote_backfill", FALSE, 200))
                       /\ UNCHANGED <<bars, ohErrors>>
                  [] fault = "handler_audit" -> FALSE
           ELSE /\ fault = "handler_audit"
                /\ ~handlerOk
                /\ CaughtPerTicker(o)
                /\ oh' = [oh EXCEPT !.last = o, !.pc = "raised"]
                /\ UNCHANGED <<bars, ohErrors, apiCalls>>
    /\ UNCHANGED <<dividends, ttm, ohRuns, ohScript, snapRows>>
    /\ UNCHANGED notOh

\* the fetch outcomes of these runs: no bar, two bars, a not-found and
\* another error
DbTries ==
    {<<EmptyAnswer>>,
     <<[kind |-> "ok", status |-> 200, items |-> 1,
        points |-> <<[date |-> TsInt(1705, 123200), close |-> 1],
                     [date |-> TsInt(1705, 209600), close |-> 2]>>]>>,
     <<HTTPStatusError(404), HTTPStatusError(404), HTTPStatusError(404)>>,
     <<TransportError, TransportError, TransportError>>}

NextOhlcvDb ==
    \/ \E tickers \in TickerLists : BfBegin("backfill", tickers)
    \/ \E tries \in DbTries : BfTicker(tries)
    \/ \E tries \in DbTries, fault \in DbFaults, handlerOk \in BOOLEAN :
          BfTickerDbError(tries, fault, handlerOk)

SpecOhlcvDb == InitOhlcv /\ [][NextOhlcvDb]_vars

\* C16 as stated: a persistence error while handling one ticker never makes
\* backfill_ohlcv raise, and the step in which it happens adds to errors
\* and goes on with the next ticker.
C16_AsStated ==
    /\ [](oh.op \in {"backfill", "update"} => oh.pc # "raised")
    /\ [][(oh.pc = "running" /\ oh' # oh /\ oh'.next = oh.next)
            => oh'.pc # "raised"]_vars

(***************************************************************************)
(* Catalog synchronizer: the order of the pages, 429, other failures       *)
(***************************************************************************)

Last(s) == s[Len(s)]

\* C17: the first page a run requests is page 1; each further request is
\* for the page requested before it or for the next one; whenever a page k
\* is requested, nothing is pending in the session and exactly the pages
\* 1..k-1 were committed by the run; and the step that commits a page
\* commits the page at the cursor, the one after the pages committed so far.
C17_PageOrder ==
    /\ [](sync.requested # <<>> => sync.requested[1] = 1)
    /\ [](\A i \in 1..(Len(sync.requested) - 1) :
            sync.requested[i + 1] \in {sync.requested[i], sync.requested[i] + 1})
    /\ [][ Len(sync'.requested) = Len(sync.requested) + 1 =>
             /\ assetsDb = assets
             /\ sync.stats.pages = Last(sync'.requested) - 1 ]_vars
    /\ [][ sync'.stats.pages > sync.stats.pages =>
             /\ sync'.stats.pages = sync.page
             /\ Last(sync.requested) = sync.page
             /\ assetsDb' = assets' ]_vars

\* C17 witness: a run requested page 1 and then page 2 and committed both.
C17_Witness ==
    /\ sync.pc = "returned"
    /\ sync.requested = <<1, 2>>
    /\ sync.stats.pages = 2
    /\ assetsDb = assets
    /\ assetsDb # <<>>

\* C18: the step in which the listing answers 429 leaves the cursor, the
\* counters and both views of the assets table as they are and leaves the
\* run at the listing request; the request that follows a 429 is for the
\* page that was requested before.
C18_RateLimitedSamePage ==
    /\ [][ rateLimited' # rateLimited =>
             /\ Last(apiCalls').status = 429
             /\ sync'.pc = "fetch"
             /\ sync'.page = sync.page
             /\ sync'.stats = sync.stats
             /\ assets' = assets
             /\ assetsDb' = assetsDb ]_vars
    /\ [][ ( /\ sync.pc = "fetch"
             /\ sync.requested # <<>>
             /\ apiCalls # <<>>
             /\ Last(apiCalls).status = 429
             /\ Len(sync'.requested) = Len(sync.requested) + 1 )
           => Last(sync'.requested) = Last(sync.requested) ]_vars

\* C18 witness: page 1 was answered with 429, requested again and
\* committed, and each of its assets was counted once.
C18_Witness ==
    /\ rateLimited = 1
    /\ sync.pc = "returned"
    /\ sync.requested = <<1, 1>>
    /\ sync.stats.pages = 1
    /\ sync.stats.processed = Len(sync.assets)
    /\ sync.stats.inserted + sync.stats.updated = Len(sync.assets)
    /\ Len(assetsDb) = sync.stats.inserted

C20_SyncTerminates ==
    /\ (sync.pc \in {"fetch", "assets"}) ~> (sync.pc \in {"returned", "raised"})
    /\ [][ (sync.pc = "fetch" /\ sync' # sync /\ Last(apiCalls').status = 200) =>
             \/ sync'.pc = "returned" /\ sync'.stats = sync.stats
             \/ sync'.pc = "assets" /\ sync'.assets # <<>> /\ sync'.next = 1 ]_vars
    /\ [][ sync'.stats.pages > sync.stats.pages =>
             IF sync.has_next = "True"
             THEN sync'.pc = "fetch" /\ sync'.page = sync.page + 1
             ELSE sync'.pc = "returned" /\ sync'.page = sync.page ]_vars
    /\ [][ sync'.pc = "returned" /\ sync.pc # "returned" =>
             \/ sync.pc = "fetch" /\ Last(apiCalls').status = 200
             \/ sync.pc = "assets" /\ sync.has_next # "True"
                  /\ sync'.stats.pages = sync.stats.pages + 1 ]_vars

\* C20 witness: a run got a 429 on page 1, committed page 1, whose
\* hasNextPage was true, received page 2 without assets and returned.
C20_Witness ==
    /\ sync.pc = "returned"
    /\ sync.requested = <<1, 1, 2>>
    /\ sync.stats.pages = 1
    /\ sync.has_next = "True"
    /\ rateLimited = 1

\* C29 as stated: the step that commits a page moves the cursor to the next
\* page when hasNextPage is true, and also when the payload has no
\* hasNextPage and its currentPage is lower than its totalPages; otherwise
\* it ends the run.
C29_AsStated ==
    [][ sync'.stats.pages > sync.stats.pages =>
          LET more == \/ sync.has_next = "True"
                      \/ /\ sync.has_next = "None"
                         /\ sync.current_page # -1 /\ sync.total_pages # -1
                         /\ sync.current_page < sync.total_pages
          IN  IF more THEN sync'.pc = "fetch" /\ sync'.page = sync.page + 1
              ELSE sync'.pc = "returned" /\ sync'.page = sync.page ]_vars

\* ---- BrapiClient.quote: the calls and their requests ----

\* ---- inputs ----

QuoteTickerStrs == {<<>>, <<" ">>, <<"a">>, <<" ", "b", " ">>}

QuoteTickerLists ==
    UNION {[1..n -> QuoteTickerStrs] : n \in 0..MaxQuoteTickers}

QuoteBases ==
    { NoRaw, Dict(EmptyDict), Dict([fundamental |-> <<"true">>]),
      Dict([modules |-> <<"m1">>, range |-> <<"1d">>]) }

QuoteKwargs ==
    { [range |-> PyNone, interval |-> PyNone, dividends |-> "None",
       fundamental |-> "None", modules |-> PyNone],
      [range |-> Str(<<"5d">>), interval |-> Str(<<"1d">>), dividends |-> "True",
       fundamental |-> "True", modules |-> Str(<<<<"m2">>, <<"m3">>>>)],
      [range |-> PyNone, interval |-> PyNone, dividends |-> "False",
       fundamental |-> "False", modules |-> Str(<<>>)] }

QuotePlans ==
    {PyNone, Str(<<"f", "r", "e", "e">>), Str(<<"F", "r", "e", "e">>),
     Str(<<"p", "r", "o">>)}

QuotePayloads ==
    { [results |-> <<"i1">>, requestedAt |-> <<"v1">>],
      [results |-> <<"i2", "i3">>, requestedAt |-> <<"v2">>, took |-> <<"t2">>],
      [stocks |-> <<"s1">>, took |-> <<"t3">>],
      [results |-> <<>>, stocks |-> <<"s2">>, error |-> <<"e">>],
      EmptyDict }

QuoteOutcomes ==
    {[ok |-> FALSE, payload |-> EmptyDict]} \cup
    {[ok |-> TRUE, payload |-> p] : p \in QuotePayloads}

\* ---- quote ----

\* quote up to its first await: nothing to ask for returns at once
QuoteCall(tickers, base, kw, plan, plan_free) ==
    /\ qc.pc = "idle"
    /\ LET tickers_list == TickersList(tickers)
           is_free_plan == IsFreePlan(plan, plan_free)
           called == [qc EXCEPT !.tickers = tickers, !.plan = plan,
                                !.plan_free = plan_free]
       IN  qc' = IF tickers_list = <<>>
                 THEN [called EXCEPT !.pc = "returned", !.result = [results |-> <<>>]]
                 ELSE [called EXCEPT
                          !.pc = "await",
                          !.todo = QuoteRequests(tickers_list,
                                                 EffectiveParams(base, kw, is_free_plan),
                                                 is_free_plan)]
    /\ UNCHANGED <<hc, parsed, bf, fq, ex, up, tx, notCli>>

\* one awaited request: its error leaves quote, its payload is appended; the
\* last payload is followed by the merge and the return
QuoteRequest(o) ==
    /\ qc.pc = "await"
    /\ LET asked == [qc EXCEPT !.sent = Append(@, Head(qc.todo)), !.todo = Tail(@)]
       IN  qc' = IF ~o.ok THEN [asked EXCEPT !.pc = "raised"]
                 ELSE LET responses == Append(qc.responses, o.payload)
                      IN  IF asked.todo # <<>>
                          THEN [asked EXCEPT !.responses = responses]
                          ELSE [asked EXCEPT !.responses = responses,
                                             !.pc = "returned",
                                             !.result = QuoteResult(responses)]
    /\ UNCHANGED <<hc, parsed, bf, fq, ex, up, tx, notCli>>

InitQuote == IdleButCli /\ CliIdle

NextQuote ==
    \/ \E tickers \in QuoteTickerLists, base \in QuoteBases, kw \in QuoteKwargs,
          plan \in QuotePlans, plan_free \in BOOLEAN :
            QuoteCall(tickers, base, kw, plan, plan_free)
    \/ \E o \in QuoteOutcomes : QuoteRequest(o)

SpecQuote == InitQuote /\ [][NextQuote]_vars

\* the input of the call as the caller sees it
QuoteNonBlank == SelectSeq(qc.tickers, LAMBDA t : \E i \in DOMAIN t : t[i] # " ")
QuoteFree ==
    IF qc.plan.none THEN qc.plan_free
    ELSE qc.plan.s \in {<<"f", "r", "e", "e">>, <<"F", "r", "e", "e">>}

RECURSIVE Flat(_)
Flat(seqs) == IF seqs = <<>> THEN <<>> ELSE Head(seqs) \o Flat(Tail(seqs))

\* C24: a quote call with no non-blank ticker sends nothing and returns
\* {"results": []}.  On the free plan the requests sent are, in input order,
\* one per non-blank ticker (stripped, upper-cased), a returned call having
\* sent all n of them, and none carries fundamental or modules; with n > 1
\* the returned results are the per-response arrays (results, else stocks,
\* else empty) in order, and each of the five metadata keys has the value of
\* the first response carrying it and is absent if none does.  Off the free
\* plan with n > 1 a returned call has sent exactly one request, for the
\* tickers joined by commas.
C24_QuoteFanOut ==
    LET nb == QuoteNonBlank
        n == Len(nb)
        has(k) == {i \in DOMAIN qc.responses : k \in DOMAIN qc.responses[i]}
    IN  qc.pc # "idle" =>
          /\ n = 0 => qc.pc = "returned" /\ qc.sent = <<>> /\ qc.result = [results |-> <<>>]
          /\ QuoteFree =>
               /\ Len(qc.sent) <= n
               /\ qc.pc = "returned" => Len(qc.sent) = n
               /\ \A i \in DOMAIN qc.sent :
                    /\ qc.sent[i].path = Upper(Strip(nb[i]))
                    /\ DOMAIN qc.sent[i].params \cap {"fundamental", "modules"} = {}
               /\ qc.pc = "returned" /\ n > 1 =>
                    /\ qc.result["results"] =
                          Flat([i \in 1..n |->
                                 LET p == qc.responses[i]
                                 IN  IF "results" \in DOMAIN p /\ p["results"] # <<>>
                                     THEN p["results"]
                                     ELSE IF "stocks" \in DOMAIN p THEN p["stocks"] ELSE <<>>])
                    /\ \A k \in PreferredMetaKeys :
                         IF has(k) = {} THEN k \notin DOMAIN qc.result
                         ELSE /\ k \in DOMAIN qc.result
                              /\ \E i \in has(k) :
                                   /\ \A j \in has(k) : i <= j
                                   /\ qc.result[k] = qc.responses[i][k]
          /\ ~QuoteFree /\ n > 1 =>
               /\ Len(qc.sent) <= 1
               /\ qc.pc = "returned" =>
                    /\ Len(qc.sent) = 1
                    /\ qc.sent[1].path = JoinComma([i \in 1..n |-> Upper(Strip(nb[i]))])

\* C24 witness: a free-plan call for two tickers, sent without any
\* parameter, returned the merge of two payloads that both had requestedAt.
C24_Witness ==
    /\ qc.pc = "returned"
    /\ QuoteFree
    /\ qc.tickers = << <<" ", "b", " ">>, <<"a">> >>
    /\ qc.sent = << [path |-> <<"B">>, params |-> EmptyDict],
                    [path |-> <<"A">>, params |-> EmptyDict] >>
    /\ qc.result = [results |-> <<"i2", "i3", "i1">>, requestedAt |-> <<"v2">>,
                    took |-> <<"t2">>]

(***************************************************************************)
(* fetch_and_enrich_asset (app/services/quote_service.py): the quote calls *)
(* of one run and the rows it stores                                       *)
(***************************************************************************)

\* the outcomes of a client.quote call of the enrichment
EnrichOutcomes ==
    { EmptyAnswer,
      [kind |-> "ok", status |-> 200, items |-> 1, points |-> <<>>],
      [kind |-> "ok", status |-> 200, items |-> 1,
       points |-> << [date |-> TsInt(1705, 123200), close |-> 1] >>],
      HTTPStatusError(401), HTTPStatusError(403), HTTPStatusError(500), TransportError }

EnrichPlans == {Str(<<"f", "r", "e", "e">>), Str(<<"p", "r", "o">>)}

\* a symbol to trim and upper-case, a blank one, and a second ticker
EnrichSymbols == SymbolInputs \cup {<<"b">>}

\* results[0].financialData: 0 when the response has none
EnrichFinancials == {0, 1, 2}

NextEnrich ==
    \/ \E symbol_in \in EnrichSymbols, d, f, m \in BOOLEAN, plan \in EnrichPlans :
         \E o1 \in EnrichOutcomes :
            \E o2 \in (IF o1.status \in {401, 403} THEN EnrichOutcomes ELSE {NoFetch}) :
               EnFetch(symbol_in, d, f, m, plan, o1, o2)
    \/ \E cash \in CashLists : EnDividends(cash)
    \/ \E financial \in EnrichFinancials : EnTtm(financial)

SpecEnrich == InitOhlcv /\ [][NextEnrich]_vars

C26_OneRowPerKey ==
    /\ [](\A r1, r2 \in dividends :
            (r1.ticker = r2.ticker /\ r1.ex_date = r2.ex_date) => r1 = r2)
    /\ [](\A r \in dividends : ~r.ex_date.none)
    /\ [](\A r1, r2 \in ttm : r1.ticker = r2.ticker => r1 = r2)
    /\ [][ (oh.pc = "ttm" /\ oh'.pc = "returned") =>
              IF oh'.ttm_data # 0
              THEN /\ {r \in ttm' : r.ticker = oh.tickers[1]} =
                         {[ticker |-> oh.tickers[1], data |-> oh'.ttm_data]}
                   /\ {r \in ttm' : r.ticker # oh.tickers[1]} =
                         {r \in ttm : r.ticker # oh.tickers[1]}
              ELSE ttm' = ttm ]_vars

\* C26 witness: after two runs, the second of which brought two dividend
\* entries for one ex-date and a financial payload, one dividend row is
\* stored, with the amount of the later entry, and one financials row, with
\* the payload of the second run.
C26_Witness ==
    /\ ohRuns = 2
    /\ oh.op = "enrich"
    /\ oh.pc = "returned"
    /\ oh.result.dividends_rows_upserted = 2
    /\ oh.ttm_data = 2
    /\ ttm = {[ticker |-> <<"A">>, data |-> 2]}
    /\ Cardinality(dividends) = 1
    /\ \A r \in dividends : r.ticker = <<"A">> /\ r.amount = 2

(***************************************************************************)
(* _parse_timestamp (app/services/ohlcv_service.py) on the forms of one    *)
(* instant                                                                 *)
(***************************************************************************)

\* instants as hi * 10^6 + lo epoch seconds: seconds of January 1970, whose
\* millisecond values are not above 10^12, and seconds of 2024
Instants ==
    { <<0, 0>>, <<0, 86400>>, <<1, 500000>>, <<2, 0>>, <<1705, 0>>, <<1705, 123200>>,
      <<1705, 123201>>, <<1705, 209600>>, <<1706, 0>>, <<1706, 500000>>,
      <<1707, 1>>, <<1800, 5>>, <<1900, 0>>, <<1999, 999999>> }

Forms == {"seconds", "milliseconds", "iso"}

\* the payload value that delivers the instant in the form
Delivered(instant, form) ==
    CASE form = "seconds" -> TsInt(instant[1], instant[2])
      [] form = "milliseconds" ->
            TsInt(instant[1] * Thousand + (instant[2] \div Thousand),
                  (instant[2] % Thousand) * Thousand)
      [] OTHER -> TsIso(instant[1], instant[2])

\* _parse_timestamp applied to two forms of one instant
ParseBoth(instant, fa, fb) ==
    /\ parsed' = [pc |-> "parsed",
                  a |-> Delivered(instant, fa), b |-> Delivered(instant, fb),
                  da |-> ParseTimestamp(Delivered(instant, fa)),
                  db |-> ParseTimestamp(Delivered(instant, fb))]
    /\ UNCHANGED <<qc, hc, bf, fq, ex, up, tx, notCli>>

InitParse == IdleButCli /\ CliIdle

NextParse == \E instant \in Instants, fa, fb \in Forms : ParseBoth(instant, fa, fb)

SpecParse == InitParse /\ [][NextParse]_vars

\* C27 as stated: two forms of one instant, each of them epoch seconds,
\* epoch milliseconds or the ISO-8601 string, are parsed to the same date.
C27_AsStated ==
    parsed.pc = "parsed" => ~parsed.da.none /\ parsed.da = parsed.db

(***************************************************************************)
(* Shared HTTP client: app/core/http.py get_async_client and               *)
(* close_async_client.  A client is the number of its construction, None   *)
(* is 0.  A coroutine may be suspended where it awaits: at the lock and in *)
(* aclose.                                                                 *)
(***************************************************************************)

MaxClients == 3

ClientMissingAlways(client) == TRUE

\* _client is None, under the lock
ClientMissing(client) == client = 0

\* get_async_client up to the lock: the client at hand is returned
GetAsyncClient(t) ==
    /\ hc.task[t].pc = "out"
    /\ hc' = IF hc.client # 0
             THEN [hc EXCEPT !.task[t] = [pc |-> "out", got |-> hc.client]]
             ELSE [hc EXCEPT !.task[t] = [pc |-> "get_lock", got |-> 0]]
    /\ UNCHANGED <<qc, parsed, bf, fq, ex, up, tx, notCli>>

\* get_async_client inside the lock: the second test, the construction, the
\* return, which releases the lock
GetLocked(t) ==
    /\ hc.task[t].pc = "get_lock"
    /\ hc.lock = 0
    /\ IF ClientMissing(hc.client)
       THEN /\ hc.made < MaxClients
            /\ hc' = [hc EXCEPT !.made = @ + 1, !.client = hc.made + 1,
                                !.task[t] = [pc |-> "out", got |-> hc.made + 1]]
       ELSE hc' = [hc EXCEPT !.task[t] = [pc |-> "out", got |-> hc.client]]
    /\ UNCHANGED <<qc, parsed, bf, fq, ex, up, tx, notCli>>

\* close_async_client is called and waits for the lock
CloseAsyncClient(t) ==
    /\ hc.task[t].pc = "out"
    /\ hc' = [hc EXCEPT !.task[t].pc = "close_lock"]
    /\ UNCHANGED <<qc, parsed, bf, fq, ex, up, tx, notCli>>

\* close_async_client inside the lock: without a client it returns, else it
\* awaits aclose holding the lock
CloseLocked(t) ==
    /\ hc.task[t].pc = "close_lock"
    /\ hc.lock = 0
    /\ hc' = IF hc.client = 0
             THEN [hc EXCEPT !.task[t].pc = "out"]
             ELSE [hc EXCEPT !.task[t].pc = "aclose", !.lock = t]
    /\ UNCHANGED <<qc, parsed, bf, fq, ex, up, tx, notCli>>

\* aclose has ended: _client = None, and the lock is released
CloseDone(t) ==
    /\ hc.task[t].pc = "aclose"
    /\ hc' = [hc EXCEPT !.closed = @ \cup {hc.client}, !.client = 0, !.lock = 0,
                        !.task[t].pc = "out"]
    /\ UNCHANGED <<qc, parsed, bf, fq, ex, up, tx, notCli>>

InitHttp == IdleButCli /\ CliIdle

NextHttp ==
    \E t \in Callers :
        \/ GetAsyncClient(t)
        \/ GetLocked(t)
        \/ CloseAsyncClient(t)
        \/ CloseLocked(t)
        \/ CloseDone(t)

SpecHttp == InitHttp /\ [][NextHttp]_vars

\* C28: at any time at most one constructed client is not closed, so that
\* until the first close at most one client exists; a client is constructed
\* only while _client is None; the client a get_async_client call returns is
\* _client as it is at the return; close_async_client with a client closes
\* it and ends with _client None, without one it changes nothing; and a
\* get_async_client that finds _client None returns a client constructed in
\* that step, which is none of the closed ones.
C28_SharedClient ==
    /\ [](hc.made <= Cardinality(hc.closed) + 1)
    /\ [](hc.client # 0 => hc.client = hc.made /\ hc.client \notin hc.closed)
    /\ [][ hc'.made # hc.made =>
              /\ hc.client = 0
              /\ hc'.made = hc.made + 1
              /\ hc'.client = hc'.made ]_vars
    /\ [][ \A t \in Callers :
              (hc.task[t].pc \in {"out", "get_lock"} /\ hc'.task[t] # hc.task[t]
                 /\ hc'.task[t].pc = "out") =>
                    /\ hc'.task[t].got = hc'.client
                    /\ hc'.client # 0
                    /\ hc.client # 0 => hc'.client = hc.client
                    /\ hc.client = 0 => hc'.client \notin hc.closed ]_vars
    /\ [][ \A t \in Callers :
              (hc.task[t].pc = "aclose" /\ hc'.task[t].pc = "out") =>
                  /\ hc'.client = 0
                  /\ hc'.closed = hc.closed \cup {hc.client} ]_vars
    /\ [][ \A t \in Callers :
              (hc.task[t].pc = "close_lock" /\ hc'.task[t].pc = "out") =>
                  /\ hc.client = 0
                  /\ hc' = [hc EXCEPT !.task[t].pc = "out"] ]_vars
    /\ [][ \A t \in Callers :
              (hc.task[t].pc = "close_lock" /\ hc'.task[t].pc = "aclose") =>
                  hc.client # 0 ]_vars

\* C28 witness: two callers hold client 1, which was closed; the call of
\* the third caller constructed client 2, which is the client at hand.
C28_Witness ==
    /\ hc.made = 2
    /\ hc.closed = {1}
    /\ hc.client = 2
    /\ hc.task[1] = [pc |-> "out", got |-> 1]
    /\ hc.task[2] = [pc |-> "out", got |-> 1]
    /\ hc.task[3] = [pc |-> "out", got |-> 2]

(***************************************************************************)
(* backfill_ohlcv (app/services/ohlcv_service.py): the order in which one  *)
(* run awaits the fetch, the writes and the audit record of its tickers.   *)
(* A ticker is its position in the list.                                   *)
(***************************************************************************)

MaxBackfillTickers == 3
MaxConcurrency == 3

\* the semaphore argument of _fetch_quote_with_semaphore: _process_ticker_ohlcv
\* passes none, so the parameter keeps its default None
SemaphorePassed == FALSE

Event(what, i) == [what |-> what, ticker |-> i]

\* the for loop goes on with the next ticker, or backfill_ohlcv returns
NextTicker(b) ==
    [b EXCEPT !.next = @ + 1, !.pc = IF b.next + 1 > b.n THEN "returned" ELSE "ticker"]

MayFetchWhileBusy(b) == b.pc \in {"ticker", "upserts", "handler"}

\* the loop awaits _process_ticker_ohlcv of one ticker before the next
MayFetch(b) == b.pc = "ticker"

\* backfill_ohlcv is called: an empty list returns at once, else the
\* semaphore is made
BackfillCalled(n, max_concurrency) ==
    /\ bf.pc \in {"idle", "returned", "raised"}
    /\ bf' = [NoBf EXCEPT !.n = n, !.max_concurrency = max_concurrency,
                          !.semaphore = IF n = 0 THEN 0 ELSE max_concurrency,
                          !.pc = IF n = 0 THEN "returned" ELSE "ticker"]
    /\ UNCHANGED <<qc, hc, parsed, fq, ex, up, tx, notCli>>

\* _fetch_quote_with_semaphore is awaited for the ticker at hand
FetchStarts ==
    /\ MayFetch(bf)
    /\ SemaphorePassed => bf.semaphore > 0
    /\ bf' = [bf EXCEPT !.pc = "fetching", !.inflight = @ + 1,
                        !.semaphore = IF SemaphorePassed THEN @ - 1 ELSE @,
                        !.events = Append(@, Event("fetch_start", bf.next))]
    /\ UNCHANGED <<qc, hc, parsed, fq, ex, up, tx, notCli>>

\* the fetch ends, after its retries: with bars, without bars (the ticker
\* is counted and left), or with an exception for one of the handlers
FetchEnds(outcome) ==
    /\ bf.pc = "fetching"
    /\ LET ended == [bf EXCEPT !.inflight = @ - 1,
                               !.semaphore = IF SemaphorePassed THEN @ + 1 ELSE @,
                               !.events = Append(@, Event("fetch_end", bf.next))]
       IN  bf' = CASE outcome = "bars" -> [ended EXCEPT !.pc = "upserts"]
                   [] outcome = "empty" ->
                        NextTicker([ended EXCEPT
                                      !.events = Append(@, Event("left", bf.next))])
                   [] OTHER -> [ended EXCEPT !.pc = "handler"]
    /\ UNCHANGED <<qc, hc, parsed, fq, ex, up, tx, notCli>>

\* the upsert loop and the commit of the ticker at hand
UpsertsCommitted ==
    /\ bf.pc = "upserts"
    /\ bf' = NextTicker([bf EXCEPT !.events = Append(@, Event("committed", bf.next))])
    /\ UNCHANGED <<qc, hc, parsed, fq, ex, up, tx, notCli>>

\* an except clause writes the audit record of the failure; when that write
\* fails the exception leaves backfill_ohlcv
FailureRecorded(written) ==
    /\ bf.pc = "handler"
    /\ bf' = IF written
             THEN NextTicker([bf EXCEPT
                                !.events = Append(@, Event("failure_recorded", bf.next))])
             ELSE [bf EXCEPT !.pc = "raised"]
    /\ UNCHANGED <<qc, hc, parsed, fq, ex, up, tx, notCli>>

InitBackfill == IdleButCli /\ CliIdle

NextBackfill ==
    \/ \E n \in 0..MaxBackfillTickers, max_concurrency \in 1..MaxConcurrency :
          BackfillCalled(n, max_concurrency)
    \/ FetchStarts
    \/ \E outcome \in {"bars", "empty", "not_found", "error"} : FetchEnds(outcome)
    \/ UpsertsCommitted
    \/ \E written \in BOOLEAN : FailureRecorded(written)

SpecBackfill == InitBackfill /\ [][NextBackfill]_vars

\* C30: at any time at most one fetch of a run is in flight, which is at
\* most max_concurrency; the first fetch is for ticker 1, and the fetch of
\* ticker i + 1 starts right after ticker i was committed, left without
\* bars or had its failure recorded; the upserts of a ticker are committed
\* right after the end of its own fetch, with no fetch in flight.
C30_FetchesInFlight ==
    /\ [](bf.inflight <= 1 /\ (bf.pc # "idle" => bf.inflight <= bf.max_concurrency))
    /\ [](\A k \in DOMAIN bf.events :
            LET ev == bf.events[k]
            IN  /\ ev.what = "fetch_start" =>
                     IF k = 1 THEN ev.ticker = 1
                     ELSE /\ bf.events[k - 1].what \in {"committed", "left", "failure_recorded"}
                          /\ bf.events[k - 1].ticker = ev.ticker - 1
                /\ ev.what = "committed" =>
                     /\ k > 1
                     /\ bf.events[k - 1] = Event("fetch_end", ev.ticker))
    /\ [][ Len(bf'.events) > Len(bf.events) /\ bf.events # <<>>
             /\ bf'.events[Len(bf.events) + 1].what = "committed" => bf.inflight = 0 ]_vars

\* C30 witness: with max_concurrency 1 a run of three tickers has started
\* its third fetch, after the first ticker was committed and the failure of
\* the second was recorded.
C30_Witness ==
    /\ bf.max_concurrency = 1
    /\ bf.inflight = 1
    /\ bf.events = << Event("fetch_start", 1), Event("fetch_end", 1), Event("committed", 1),
                      Event("fetch_start", 2), Event("fetch_end", 2),
                      Event("failure_recorded", 2), Event("fetch_start", 3) >>

(***************************************************************************)
(* _fetch_quote_single (app/services/ohlcv_service.py): the loop over the  *)
(* attempts, one client.quote call in each.  An outcome of a call carries  *)
(* the number of requests the transport sent for it.                       *)
(***************************************************************************)

\* the outcomes of one client.quote([ticker], params) call: an answer at
\* once or after one retry of the transport, a status the transport does
\* not retry, and a status or a transport error it retries to its limit
QuoteCallOutcomes ==
    { [kind |-> "ok", status |-> 200, sends |-> 1],
      [kind |-> "ok", status |-> 200, sends |-> 2],
      [kind |-> "HTTPStatusError", status |-> 404, sends |-> 1],
      [kind |-> "HTTPStatusError", status |-> 401, sends |-> 1],
      [kind |-> "HTTPStatusError", status |-> 500, sends |-> DEFAULT_MAX_ATTEMPTS],
      [kind |-> "TransportError", status |-> 0, sends |-> DEFAULT_MAX_ATTEMPTS] }

LastAttemptNever(attempt) == FALSE

\* attempt == max_retries - 1
LastAttempt(attempt) == attempt = FETCH_MAX_RETRIES - 1

\* except Exception: every failure of the call is one the loop goes on after
Retried(o) == TRUE

\* _fetch_quote_single is called
FetchSingleCalled ==
    /\ fq.pc \in {"idle", "returned", "raised"}
    /\ fq' = [NoFq EXCEPT !.pc = "attempt"]
    /\ UNCHANGED <<qc, hc, parsed, bf, ex, up, tx, notCli>>

\* one turn of the loop: the client call; its answer is returned, its
\* exception is raised in the last turn and else followed by the backoff
ClientQuote(o) ==
    /\ fq.pc = "attempt"
    /\ fq.attempt < FETCH_MAX_RETRIES
    /\ LET called == [fq EXCEPT !.invoked = @ + 1, !.requests = @ + o.sends,
                                !.outcomes = Append(@, o)]
       IN  fq' = IF o.kind = "ok"
                 THEN [called EXCEPT !.pc = "returned", !.result = o]
                 ELSE IF LastAttempt(fq.attempt) \/ ~Retried(o)
                 THEN [called EXCEPT !.pc = "raised", !.result = o]
                 ELSE [called EXCEPT !.attempt = @ + 1]
    /\ UNCHANGED <<qc, hc, parsed, bf, ex, up, tx, notCli>>

InitFetch == IdleButCli /\ CliIdle

NextFetch ==
    \/ FetchSingleCalled
    \/ \E o \in QuoteCallOutcomes : ClientQuote(o)

SpecFetch == InitFetch /\ [][NextFetch]_vars

\* C31: one _fetch_quote_single call invokes the client at most 3 times; it
\* returns exactly the first answer, with no invocation after it; it raises
\* exactly after three failed invocations, with the exception of the third;
\* and while it goes on every invocation so far has failed.
C31_AtMostThreeCalls ==
    LET n == Len(fq.outcomes)
        failed(i) == fq.outcomes[i].kind # "ok"
    IN  /\ fq.invoked = n
        /\ n <= 3
        /\ \A i \in 1..(n - 1) : failed(i)
        /\ fq.pc = "returned" => n >= 1 /\ ~failed(n) /\ fq.result = fq.outcomes[n]
        /\ fq.pc = "raised" => n = 3 /\ failed(3) /\ fq.result = fq.outcomes[3]
        /\ fq.pc = "attempt" => n < 3 /\ \A i \in 1..n : failed(i)

\* C31 witness: two failed invocations and then an answer, which is returned.
C31_Witness ==
    /\ fq.pc = "returned"
    /\ fq.invoked = 3
    /\ fq.outcomes[1].kind = "TransportError"
    /\ fq.outcomes[2].status = 500
    /\ fq.result.kind = "ok"

\* C39 as stated: a _fetch_quote_single call whose ticker the upstream
\* answers with 404 has caused at most one request, and exactly one when it
\* hands the not-found outcome to _process_ticker_ohlcv.
C39_AsStated ==
    (fq.outcomes # <<>> /\ \A i \in DOMAIN fq.outcomes : fq.outcomes[i].status = 404) =>
        /\ fq.requests <= 1
        /\ fq.pc = "raised" => fq.requests = 1

(***************************************************************************)
(* sync_assets: the enrichment of a ticker that is not stored yet.         *)
(***************************************************************************)

\* the outcomes of the attempts of one _enrich_asset call that bring no
\* detail: not found (at once or after a failure), an empty results list,
\* every attempt failing
EnrichNothing ==
    LET not_found == [kind |-> "not_found", items |-> <<>>]
        empty == [kind |-> "ok", items |-> <<>>]
    IN  {<<not_found>>, <<EnrichExc, not_found>>, <<EnrichExc, EnrichExc, not_found>>,
         <<empty>>, <<EnrichExc, empty>>, <<EnrichExc, EnrichExc, EnrichExc>>}

C33_AsStated ==
    [][ (sync.pc = "assets" /\ sync'.next = sync.next + 1
         /\ LookupAsset(assets, sync.assets[sync.next].ticker) > 0)
        => LET listed == sync.assets[sync.next]
               enriched == sync'.assets[sync.next]
               i == LookupAsset(assets', listed.ticker)
           IN  /\ i > 0
               /\ (~HasValue(MergeAsset(assets[i], listed).sector)
                   /\ ~HasValue(MergeAsset(assets[i], listed).logo_url))
                  => \A f \in {"sector", "logo_url"} :
                        enriched[f] # listed[f] => assets'[i][f] = enriched[f] ]_vars

(***************************************************************************)
(* The extraction of the records of one response:                          *)
(* _extract_ohlcv_from_quote (app/services/ohlcv_service.py) and           *)
(* _extract_assets_from_list (app/services/catalog_service.py).            *)
(***************************************************************************)

MaxRecords == 3

\* a number that int() or datetime.fromtimestamp() cannot take: an infinite
\* float, or a value beyond the platform's time_t (1e30, 10**22)
TsHuge == [kind |-> "huge", hi |-> 0, lo |-> 0]

\* _parse_timestamp catches (ValueError, TypeError) only: the OverflowError
\* of int(inf) and of fromtimestamp beyond time_t leaves the function
ParseTimestampRaises(ts) == ts.kind = "huge"

\* _extract_ohlcv_from_quote as its caller sees it: the rows, or the
\* exception of a date, which ends the loop over the points
ExtractOhlcv(points, ticker) ==
    IF \E i \in DOMAIN points : ParseTimestampRaises(points[i].date)
    THEN [raised |-> TRUE, rows |-> <<>>]
    ELSE [raised |-> FALSE, rows |-> ExtractPoints(points, ticker)]

\* points with a date in seconds, in milliseconds, as text, without one,
\* and out of range
ExtractablePoints ==
    { [date |-> TsInt(1705, 123200), close |-> 1],
      [date |-> TsInt(1705209, 600000), close |-> 2],
      [date |-> TsIso(1705, 123200), close |-> 3],
      [date |-> TsNone, close |-> 4],
      [date |-> TsHuge, close |-> 5] }

ExtractablePointLists == UNION {[1..n -> ExtractablePoints] : n \in 0..MaxRecords}

ExtractableItemLists == UNION {[1..n -> ListItems] : n \in 0..MaxRecords}

\* _extract_ohlcv_from_quote(payload, ticker) is called
ExtractOhlcvCalled(points) ==
    /\ LET r == ExtractOhlcv(points, <<"a">>)
       IN  ex' = [NoEx EXCEPT !.pc = IF r.raised THEN "raised" ELSE "returned",
                              !.what = "ohlcv", !.points = points, !.rows = r.rows]
    /\ UNCHANGED <<qc, hc, parsed, bf, fq, up, tx, notCli>>

\* _extract_assets_from_list(payload, default_type) is called
ExtractAssetsCalled(items, default_type) ==
    /\ ex' = [NoEx EXCEPT !.pc = "returned", !.what = "assets", !.items = items,
                          !.assets = ExtractFrom(items, default_type)]
    /\ UNCHANGED <<qc, hc, parsed, bf, fq, up, tx, notCli>>

InitExtract == IdleButCli /\ CliIdle

NextExtract ==
    \/ \E points \in ExtractablePointLists : ExtractOhlcvCalled(points)
    \/ \E items \in ExtractableItemLists : ExtractAssetsCalled(items, Str(STOCK))

SpecExtract == InitExtract /\ [][NextExtract]_vars

\* the records of a response that are to be kept
DateParses(point) == point.date.kind = "int"
HasTicker(item) ==
    IF item.kind = "str" THEN Strip(item.s) # <<>>
    ELSE Truthy(Get(item.d, "symbol")) /\ Strip(Get(item.d, "symbol").s) # <<>>

\* C34 as stated: every extraction returns; the rows of a response are its
\* points whose date parses, in their order, and the assets of a listing are
\* its records with a ticker, in their order.
C34_AsStated ==
    /\ ex.pc # "raised"
    /\ ex.what = "ohlcv"
          => LET kept == SelectSeq(ex.points, DateParses)
             IN  /\ Len(ex.rows) = Len(kept)
                 /\ \A k \in DOMAIN kept : ex.rows[k].close = kept[k].close
    /\ ex.what = "assets"
          => LET kept == SelectSeq(ex.items, HasTicker)
             IN  /\ Len(ex.assets) = Len(kept)
                 /\ \A k \in DOMAIN kept :
                        ex.assets[k].raw =
                           (IF kept[k].kind = "str"
                            THEN Dict([symbol |-> Str(Strip(Upper(kept[k].s)))])
                            ELSE Dict(kept[k].d))

\* the same, of the extractions that return
ExtractedWhenReturned == ex.pc = "raised" \/ C34_AsStated

(***************************************************************************)
(* backfill_ohlcv run twice at the same time, each run on a session of its *)
(* own (app/services/ohlcv_service.py; the table and its unique constraint *)
(* are those of QuoteOHLCV, app/models/catalog.py).  A row of the table is *)
(* [key |-> <<ticker, date>>, by |-> the run that inserted it].  A session *)
(* (SQLAlchemy) holds the rows added and not yet sent (pending) and the    *)
(* rows sent in its open transaction (flushed); it sends the pending rows  *)
(* before a query and at the commit; when an INSERT is refused the         *)
(* transaction is rolled back and every further use of the session raises  *)
(* until rollback() is called, which no code of the application does.      *)
(***************************************************************************)

\* the dates of the bars the upstream returns for a ticker
RaceDates(ticker) == IF ticker = <<"A">> THEN <<1, 2>> ELSE <<1>>

RaceTickerLists == {<<(<<"A">>)>>, <<(<<"B">>)>>, <<(<<"A">>), (<<"B">>)>>, <<(<<"B">>), (<<"A">>)>>}

RaceKeys(table) == {row.key : row \in table}

UniqueKeyOff(table, keys) == FALSE

\* UniqueConstraint("ticker", "date"): an INSERT of a key that is in the
\* table is refused
UniqueKey(table, keys) == keys \cap RaceKeys(table) # {}

\* the rows other sessions have sent and not committed: an INSERT of one of
\* their keys waits for the end of that transaction
HeldByOthers(r) == UNION {up.run[q].flushed : q \in Sessions \ {r}}

\* backfill_ohlcv(session, tickers) is called in run r; the fetch of each
\* ticker returns the bars of RaceDates
RaceBegin(r, tickers) ==
    /\ up.run[r].pc = "idle"
    /\ up' = [up EXCEPT !.run[r] = [NoRun EXCEPT !.pc = "select", !.tickers = tickers]]
    /\ UNCHANGED <<qc, hc, parsed, bf, fq, ex, tx, notCli>>

\* one turn of the loop over the bars of the ticker: the select (before
\* which the session sends its pending rows), the update or session.add,
\* the counters, and the except clause of the turn
UpsertTurn(r) ==
    LET s == up.run[r]
        ticker == s.tickers[s.next]
        dates == RaceDates(ticker)
        key == <<ticker, dates[s.bar]>>
        refused == ~s.failed /\ UniqueKey(up.table, s.pending)
        raises == s.failed \/ refused
        flushed == IF raises THEN {} ELSE s.flushed \cup s.pending
        existing == key \in RaceKeys(up.table) \cup flushed
        stats == [s.stats EXCEPT
                    !.errors = IF raises THEN @ + 1 ELSE @,
                    !.updated = IF ~raises /\ existing THEN @ + 1 ELSE @,
                    !.inserted = IF ~raises /\ ~existing THEN @ + 1 ELSE @]
    IN  /\ s.pc = "select"
        /\ s.pending \cap HeldByOthers(r) = {}
        /\ up' = [up EXCEPT !.run[r] =
                     [s EXCEPT !.failed = raises,
                               !.flushed = flushed,
                               !.pending = IF raises \/ existing THEN {} ELSE {key},
                               !.stats = stats,
                               !.bar = IF s.bar < Len(dates) THEN @ + 1 ELSE @,
                               !.pc = IF s.bar < Len(dates) THEN "select" ELSE "commit"]]
        /\ UNCHANGED <<qc, hc, parsed, bf, fq, ex, tx, notCli>>

\* session.commit() after the bars of the ticker, and what follows: the
\* count of the ticker and the next one, or `except Exception`, whose audit
\* record is written through the same session
UpsertCommit(r) ==
    LET s == up.run[r]
        refused == ~s.failed /\ UniqueKey(up.table, s.pending)
        raises == s.failed \/ refused
        rows == {[key |-> k, by |-> r] : k \in s.flushed \cup s.pending}
        last == s.next = Len(s.tickers)
    IN  /\ s.pc = "commit"
        /\ s.pending \cap HeldByOthers(r) = {}
        /\ up' = IF raises
                 THEN [up EXCEPT !.run[r] =
                         [s EXCEPT !.failed = TRUE, !.flushed = {}, !.pending = {},
                                   !.stats.errors = @ + 1, !.pc = "raised"]]
                 ELSE [up EXCEPT !.table = @ \cup rows,
                                 !.run[r] =
                         [s EXCEPT !.flushed = {}, !.pending = {},
                                   !.stats.processed = @ + 1,
                                   !.next = IF last THEN @ ELSE @ + 1,
                                   !.bar = 1,
                                   !.pc = IF last THEN "returned" ELSE "select"]]
        /\ UNCHANGED <<qc, hc, parsed, bf, fq, ex, tx, notCli>>

InitRace == IdleButCli /\ CliIdle

NextRace ==
    \/ \E r \in Sessions, tickers \in RaceTickerLists : RaceBegin(r, tickers)
    \/ \E r \in Sessions : UpsertTurn(r)
    \/ \E r \in Sessions : UpsertCommit(r)

SpecRace == InitRace /\ [][NextRace]_vars

\* C35 as stated: the table never holds two bars with one key, and a run
\* whose insert is refused counts an error in that step and goes on: it
\* does not raise.
C35_AsStated ==
    /\ [](\A a, b \in up.table : a.key = b.key => a = b)
    /\ [][\A r \in Sessions :
             (up'.run[r].failed /\ ~up.run[r].failed)
             => /\ up'.run[r].stats.errors > up.run[r].stats.errors
                /\ up'.run[r].pc # "raised"]_vars

\* the first half of C35 alone
OneBarPerKey == \A a, b \in up.table : a.key = b.key => a = b

(***************************************************************************)
(* BrapiClient._request_json (app/services/brapi_client.py): the permit of *)
(* the limiter and the sends of send_request_with_retry (app/core/http.py) *)
(* made while it is held.                                                  *)
(***************************************************************************)

\* the _request_json calls of the model
MaxRequests == 3

\* what the upstream does with one send
TxOutcomes ==
    {[kind |-> "transport_error", status |-> 0],
     [kind |-> "response", status |-> 200],
     [kind |-> "response", status |-> 404],
     [kind |-> "response", status |-> 503]}

TxGranted == tx.granted["quote"] + tx.granted["quote_list"] + tx.granted["prime_rate_available"]

\* `async with limiter:` is entered: the caller has its permit, and
\* send_request_with_retry begins its first attempt
TxAcquire(c, r) ==
    /\ tx.held[c] = NoHold
    /\ TxGranted < MaxRequests
    /\ tx' = [tx EXCEPT !.granted[r] = @ + 1,
                        !.held[c] = [resource |-> r, attempt |-> 1]]
    /\ UNCHANGED <<qc, hc, parsed, bf, fq, ex, up, notCli>>

\* one attempt of send_request_with_retry inside the `async with`:
\* client.send, then the return, the raise or the backoff before the next
\* attempt; the permit is not asked for again
TxSend(c, o) ==
    LET h == tx.held[c]
        exc == AttemptRaises(o)
        over == exc = "ok" \/ ~RetryPredicate(exc)
                \/ StopAfterAttempt(h.attempt, DEFAULT_MAX_ATTEMPTS)
    IN  /\ h # NoHold
        /\ tx' = [tx EXCEPT !.sends[h.resource] = @ + 1,
                            !.held[c] = IF over THEN NoHold
                                        ELSE [h EXCEPT !.attempt = @ + 1]]
        /\ UNCHANGED <<qc, hc, parsed, bf, fq, ex, up, notCli>>

\* prime_rate_scan_service._fetch_available_countries: a GET through a
\* client of its own, with no limiter asked
TxProbe ==
    /\ tx.sends["prime_rate_available"] < MaxRequests
    /\ tx' = [tx EXCEPT !.sends["prime_rate_available"] = @ + 1]
    /\ UNCHANGED <<qc, hc, parsed, bf, fq, ex, up, notCli>>

InitSends == IdleButCli /\ CliIdle

NextSends ==
    \/ \E c \in TxCallers, r \in TxResources : TxAcquire(c, r)
    \/ \E c \in TxCallers, o \in TxOutcomes : TxSend(c, o)
    \/ TxProbe

SpecSends == InitSends /\ [][NextSends]_vars

\* C36 as stated: for each resource the number of HTTP sends made so far,
\* retries counted, is at most the number of permits granted so far.
C36_AsStated == \A r \in TxResources : tx.sends[r] <= tx.granted[r]

\* the sends made through _request_json never exceed DEFAULT_MAX_ATTEMPTS
\* for each permit
SendsPerPermit ==
    \A r \in {"quote", "quote_list"} : tx.sends[r] <= DEFAULT_MAX_ATTEMPTS * tx.granted[r]

(***************************************************************************)
(* get_quote under concurrency, and its cache entry after a failed         *)
(* validation (app/services/quote_service.py).                             *)
(***************************************************************************)

\* C37 as stated: of the get_quote calls for one key that found no entry in
\* the cache and are still running, at most one has made or is about to
\* make the upstream requests.
C37_AsStated ==
    \A t, u \in Tasks :
        (/\ t # u
         /\ ctTask[t].resource = "quote" /\ ctTask[u].resource = "quote"
         /\ ctTask[t].key # NoKey /\ ctTask[t].key = ctTask[u].key
         /\ ~ctTask[t].saw.present /\ ~ctTask[u].saw.present
         /\ ctTask[t].pc \in {"fetch", "store"} /\ ctTask[u].pc \in {"fetch", "store"})
        => ~(ctTask[t].reqs > 0 /\ ctTask[u].reqs > 0)

\* C38 as stated: a get_quote call that wrote an entry returned its payload
\* as a successful result; and no call is served from the cache, within the
\* TTL, the payload fetched by an earlier call for the same key that
\* returned the error result of a failed validation.
C38_AsStated ==
    \A t \in Tasks :
        LET me == ctTask[t] IN
        (me.resource = "quote" /\ me.pc = "done")
        => /\ me.wrote.present
                 => ~me.result.error /\ me.result.payload = me.wrote.value
           /\ (me.result.error /\ me.result.status = 500 /\ me.got # <<>>)
                 => \A u \in Tasks \ {t} :
                       ~(/\ ctTask[u].pc = "done"
                         /\ ctTask[u].callNo > me.callNo
                         /\ ctTask[u].key = me.key
                         /\ ctTask[u].result.cached
                         /\ ctTask[u].result.payload = me.got)

(***************************************************************************)
(* sync_assets: the counters of a run.                                     *)
(***************************************************************************)

\* C40: processed never exceeds inserted + updated, and equals it when the
\* run has returned without an error; pages is the number of pages whose
\* assets were committed: it is one less than the page at hand while a run
\* works, it grows by one in the step that commits the last asset of a
\* page and in no other step, and a listing page without assets ends the
\* run and leaves it as it is.
C40_SyncStats ==
    /\ [](sync.stats.processed <= sync.stats.inserted + sync.stats.updated)
    /\ []((sync.pc = "returned" /\ sync.stats.errors = 0)
             => sync.stats.processed = sync.stats.inserted + sync.stats.updated)
    /\ [](sync.pc \in {"fetch", "assets"} => sync.stats.pages = sync.page - 1)
    /\ [][ sync.pc = "assets"
             => sync'.stats.pages =
                   (IF sync.next = Len(sync.assets) /\ sync'.pc \in {"fetch", "returned"}
                    THEN sync.stats.pages + 1 ELSE sync.stats.pages) ]_vars
    /\ [][ sync.pc = "fetch"
             => /\ sync'.stats.pages = sync.stats.pages
                /\ sync'.pc = "returned"
                      => /\ apiCalls' = LogCall(apiCalls, "quote_list", FALSE, 200)
                         /\ sync'.stats = sync.stats ]_vars

\* C40 witness: a run committed one page of assets, asked for the second,
\* which had none, and returned with one page counted and every asset of
\* the first counted once.
C40_Witness ==
    /\ sync.pc = "returned"
    /\ sync.requested = <<1, 2>>
    /\ sync.page = 2
    /\ sync.stats.pages = 1
    /\ sync.stats.errors = 0
    /\ sync.stats.processed = Len(sync.assets)
    /\ sync.stats.processed = sync.stats.inserted + sync.stats.updated
    /\ sync.stats.updated > 0

====
